---- MODULE Spec2Model ----
(***************************************************************************)
(* A model of the query transcoder of react-querybuilder: formatQuery      *)
(* (export of a rule tree to thirteen formats), the default PostgREST rule *)
(* processor and parsePostgREST (import of a PostgREST logic object).      *)
(*                                                                         *)
(* Representation.                                                         *)
(*   JSON values are tagged records (JNull, JNum, JStr, JBool, JArr, JObj, *)
(*   JUndef for JavaScript's undefined).  An object is the sequence of its *)
(*   entries in insertion order.                                           *)
(*   A rule is [field, operator, value, valueSource]; valueSource "none"   *)
(*   stands for an absent/undefined valueSource.  A group is               *)
(*   [combinator, not, rules]; an absent `not` is modelled as FALSE.       *)
(*   A node's id is its path from the root (a sequence of indices).        *)
(*   Text is a sequence of string tokens: the punctuation formatQuery      *)
(*   itself writes, and the fragments the rule processors return.          *)
(***************************************************************************)
EXTENDS Integers, Sequences, FiniteSets, TLC

\* ------------------------------------------------------------------ bounds

\* Largest number of descendants of the root of a generated rule tree.
MaxNodes == 2

\* Numeric strings are the decimal numerals of 0..MaxNumber.
MaxNumber == 4

\* ------------------------------------------------------------ JSON values

JNull == [t |-> "null"]
JUndef == [t |-> "undef"]
JNum(n) == [t |-> "num", n |-> n]
JStr(s) == [t |-> "str", s |-> s]
JBool(b) == [t |-> "bool", b |-> b]
JArr(a) == [t |-> "arr", a |-> a]
JObj(e) == [t |-> "obj", e |-> e]
JObj1(k, v) == JObj(<<[k |-> k, v |-> v]>>)
JVar(f) == JObj1("var", JStr(f))

Range(s) == {s[i] : i \in DOMAIN s}

RECURSIVE Flatten(_)
Flatten(ss) == IF ss = <<>> THEN <<>> ELSE Head(ss) \o Flatten(Tail(ss))

\* Array.prototype.filter(Boolean) on a sequence of texts: '' is falsy.
RECURSIVE FilterNonEmpty(_)
FilterNonEmpty(ss) ==
  IF ss = <<>> THEN <<>>
  ELSE IF Head(ss) = <<>> THEN FilterNonEmpty(Tail(ss))
       ELSE <<Head(ss)>> \o FilterNonEmpty(Tail(ss))

\* Array.prototype.join on a sequence of texts with a separator text.
RECURSIVE JoinText(_, _)
JoinText(ss, sep) ==
  IF ss = <<>> THEN <<>>
  ELSE IF Len(ss) = 1 THEN Head(ss)
       ELSE Head(ss) \o sep \o JoinText(Tail(ss), sep)

\* ------------------------------------------------------------- rule trees

isRuleGroup(x) == "rules" \in DOMAIN x
isRuleGroupType(x) == isRuleGroup(x) /\ "combinator" \in DOMAIN x
isCombinatorToken(x) == "comb" \in DOMAIN x

Rule(f, o, v, vs) == [field |-> f, operator |-> o, value |-> v, valueSource |-> vs]
Group(c, n, rs) == [combinator |-> c, not |-> n, rules |-> rs]

defaultPlaceholderFieldName == "~"
defaultPlaceholderOperatorName == "~"

\* Rule trees with at most n nodes below the root, over a rule alphabet rs:
\* Forest(rs, n) is the set of child lists whose nodes (rules, groups and the
\* groups' own descendants) number at most n.
RECURSIVE Forest(_, _)
Forest(rs, n) ==
  IF n = 0 THEN {<<>>}
  ELSE {<<>>}
       \cup {<<x>> \o f : x \in rs, f \in Forest(rs, n - 1)}
       \cup UNION {{<<Group(c, b, sub)>> \o f :
                       c \in {"and", "or"}, b \in BOOLEAN,
                       sub \in Forest(rs, k), f \in Forest(rs, n - 1 - k)}
                   : k \in 0..(n - 1)}

TreesOver(rs, n) ==
  {Group(c, b, f) : c \in {"and", "or"}, b \in BOOLEAN, f \in Forest(rs, n)}

\* All rules of a tree, wherever they stand.
RECURSIVE RulesOf(_)
RulesOf(rg) ==
  UNION {IF isCombinatorToken(rg.rules[i]) THEN {}
         ELSE IF isRuleGroup(rg.rules[i]) THEN RulesOf(rg.rules[i])
         ELSE {rg.rules[i]} : i \in DOMAIN rg.rules}

\* ------------------------------------------------- formatQuery: options

Formats ==
  {"json", "json_without_ids", "sql", "parameterized", "parameterized_named",
   "mongodb", "cel", "spel", "jsonlogic", "elasticsearch", "jsonata",
   "natural_language", "postgrest"}

\* The default fallback expression of a format (one text token).
DefaultFallbackExpression(format) ==
  IF format = "mongodb" THEN "\"$and\":[{\"$expr\":true}]"
  ELSE IF format \in {"cel", "spel"} THEN "1 == 1"
  ELSE IF format = "natural_language" THEN "1 is 1"
  ELSE "(1 = 1)"

\* The options after the merge and the defaulting of formatQuery.  The
\* caller gives fallbackExpression "" for "not supplied" (an empty override
\* is falsy and is replaced by the default as well).
EffectiveFallback(o) ==
  IF o.fallbackExpression = "" THEN DefaultFallbackExpression(o.format)
  ELSE o.fallbackExpression

celCombinatorMap(c) == IF c = "and" THEN "&&" ELSE "||"

\* ---------------------------------------------- formatQuery: validation

\* The validator's result is a boolean ([bool |-> b]) or a validation map
\* ([valid |-> paths recorded valid, invalid |-> paths recorded invalid]).
IsBooleanResult(v) == "bool" \in DOMAIN v

ValidationMap(o) ==
  IF IsBooleanResult(o.validation) THEN [valid |-> {}, invalid |-> {}]
  ELSE o.validation

\* validationMap[id]: "true", "false" or "undefined".
MapLookup(vm, path) ==
  IF path \in vm.invalid THEN "false"
  ELSE IF path \in vm.valid THEN "true"
  ELSE "undefined"

\* validateRule: the rule's entry of the validation map, and whether a
\* validator is attached to the rule's field (o.fieldValidators: the
\* fields that carry a validator; o.rejectedFields: those whose validator
\* answers false).
validateRule(rule, path, o) ==
  [validationResult |-> MapLookup(ValidationMap(o), path),
   fieldValidator |-> IF rule.field \in o.fieldValidators
                      THEN (IF rule.field \in o.rejectedFields THEN "false" ELSE "true")
                      ELSE "undefined"]

\* isRuleOrGroupValid: a recorded invalidity decides; otherwise, for a
\* rule, the validator attached to its field; otherwise valid.
isRuleOrGroupValid(rg, validationResult, fieldValidator) ==
  IF validationResult = "false" THEN FALSE
  ELSE IF fieldValidator # "undefined" /\ ~isRuleGroup(rg) THEN fieldValidator = "true"
  ELSE TRUE

GroupIsValid(rg, path, o) ==
  isRuleOrGroupValid(rg, MapLookup(ValidationMap(o), path), "undefined")

IsPlaceholder_FieldOnly(rule, o) == rule.field = o.placeholderFieldName

IsPlaceholder(rule, o) ==
  \/ rule.field = o.placeholderFieldName
  \/ rule.operator = o.placeholderOperatorName

RuleIsDropped_MapOnly(rule, path, o) ==
  \/ ~isRuleOrGroupValid(rule, validateRule(rule, path, o).validationResult, "undefined")
  \/ IsPlaceholder(rule, o)

\* The "basic rule validation" every non-JSON format applies to a rule.
RuleIsDropped(rule, path, o) ==
  LET v == validateRule(rule, path, o)
  IN \/ ~isRuleOrGroupValid(rule, v.validationResult, v.fieldValidator)
     \/ IsPlaceholder(rule, o)

\* --------------------------------------- rule processors of other files

\* `${value}` for the values the model uses.
ValueText(v) ==
  IF v.t = "str" THEN v.s
  ELSE IF v.t = "num" THEN ToString(v.n)
  ELSE IF v.t = "bool" THEN (IF v.b THEN "true" ELSE "false")
  ELSE IF v.t = "null" THEN "null"
  ELSE "list"

\* What a default rule processor of a text format writes for a rule: one
\* token that names the rule's field, operator and value.
RuleCore(rule) == rule.field \o " " \o rule.operator \o " " \o ValueText(rule.value)

defaultRuleProcessorText(rule) == <<RuleCore(rule)>>
defaultRuleProcessorMongoDB(rule) == <<"{", RuleCore(rule), "}">>
defaultRuleProcessorObject(rule) == JObj1("rule", JStr(RuleCore(rule)))

\* ------------------------------------------------------ formatQuery: sql

CombinatorGlue(rg, before, after) ==
  IF isRuleGroupType(rg) THEN <<before \o rg.combinator \o after>> ELSE <<" ">>

\* The end of processRuleGroup (sql, parameterized): an empty rules list
\* is the fallback expression; otherwise the children that are not empty
\* are joined inside parentheses, after NOT when the group is negated.
JoinSQLGroup_AlwaysWraps(rg, processedRules, o) ==
  (IF rg.not THEN <<"NOT ">> ELSE <<>>) \o <<"(">>
  \o JoinText(FilterNonEmpty(processedRules), CombinatorGlue(rg, " ", " "))
  \o <<")">>

JoinSQLGroup(rg, processedRules, o) ==
  IF Len(processedRules) = 0 THEN <<EffectiveFallback(o)>>
  ELSE (IF rg.not THEN <<"NOT ">> ELSE <<>>) \o <<"(">>
       \o JoinText(FilterNonEmpty(processedRules), CombinatorGlue(rg, " ", " "))
       \o <<")">>

RECURSIVE processRuleGroupSQL(_, _, _, _)
processRuleGroupSQL(rg, path, outermostOrLonelyInGroup, o) ==
  IF ~GroupIsValid(rg, path, o)
  THEN (IF outermostOrLonelyInGroup THEN <<EffectiveFallback(o)>> ELSE <<>>)
  ELSE
    LET processedRules ==
          [i \in DOMAIN rg.rules |->
             LET rule == rg.rules[i]
             IN IF isCombinatorToken(rule) THEN <<rule.comb>>
                ELSE IF isRuleGroup(rule)
                  THEN processRuleGroupSQL(rule, Append(path, i), Len(rg.rules) = 1, o)
                ELSE IF RuleIsDropped(rule, Append(path, i), o) THEN <<>>
                ELSE defaultRuleProcessorText(rule)]
    IN JoinSQLGroup(rg, processedRules, o)

\* ------------------------------------------ formatQuery: cel, spel, jsonata

\* The three expression formats share one shape; they differ in the
\* combinator glue and in the negation prefix.
NotPrefix(format) == IF format = "jsonata" THEN "$not" ELSE "!"

ExprGlue(rg, format) ==
  IF ~isRuleGroupType(rg) THEN <<" ">>
  ELSE IF format = "cel" THEN <<" " \o celCombinatorMap(rg.combinator) \o " ">>
  ELSE <<" " \o rg.combinator \o " ">>

RECURSIVE processRuleGroupExpr(_, _, _, _)
processRuleGroupExpr(rg, path, outermost, o) ==
  IF ~GroupIsValid(rg, path, o)
  THEN (IF outermost THEN <<EffectiveFallback(o)>> ELSE <<>>)
  ELSE
    LET mapped ==
          [i \in DOMAIN rg.rules |->
             LET rule == rg.rules[i]
             IN IF isCombinatorToken(rule)
                  THEN (IF o.format = "cel" THEN <<celCombinatorMap(rule.comb)>>
                        ELSE <<rule.comb>>)
                ELSE IF isRuleGroup(rule)
                  THEN processRuleGroupExpr(rule, Append(path, i), FALSE, o)
                ELSE IF RuleIsDropped(rule, Append(path, i), o) THEN <<>>
                ELSE defaultRuleProcessorText(rule)]
        expression == JoinText(FilterNonEmpty(mapped), ExprGlue(rg, o.format))
        wrap == rg.not \/ ~outermost
        prefix == IF wrap
                  THEN (IF rg.not THEN <<NotPrefix(o.format)>> ELSE <<>>) \o <<"(">>
                  ELSE <<>>
        suffix == IF wrap THEN <<")">> ELSE <<>>
    IN IF expression # <<>> THEN prefix \o expression \o suffix
       ELSE <<EffectiveFallback(o)>>

\* ----------------------------------------- formatQuery: natural language

RECURSIVE processRuleGroupNL(_, _, _, _)
processRuleGroupNL(rg, path, outermostOrLonelyInGroup, o) ==
  IF ~GroupIsValid(rg, path, o)
  THEN (IF outermostOrLonelyInGroup THEN <<EffectiveFallback(o)>> ELSE <<>>)
  ELSE
    LET processedRules ==
          [i \in DOMAIN rg.rules |->
             LET rule == rg.rules[i]
             IN IF isCombinatorToken(rule) THEN <<", " \o rule.comb \o " ">>
                ELSE IF isRuleGroup(rule)
                  THEN processRuleGroupNL(rule, Append(path, i), Len(rg.rules) = 1, o)
                ELSE IF RuleIsDropped(rule, Append(path, i), o) THEN <<>>
                ELSE defaultRuleProcessorText(rule)]
        wrap == rg.not \/ ~outermostOrLonelyInGroup
        prefix == IF wrap THEN <<"(">> ELSE <<>>
        suffix == IF wrap
                  THEN <<IF rg.not THEN ") is not true" ELSE ") is true">>
                  ELSE <<>>
        glue == IF isRuleGroupType(rg) THEN <<", " \o rg.combinator \o " ">> ELSE <<>>
    IN IF Len(processedRules) = 0 THEN <<EffectiveFallback(o)>>
       ELSE prefix \o JoinText(FilterNonEmpty(processedRules), glue) \o suffix

\* ------------------------------------------------- formatQuery: mongodb

\* /^{.+}$/.test(text): the text opens and closes with a brace and holds
\* something in between.
IsBraced(text) == Len(text) >= 3 /\ text[1] = "{" /\ text[Len(text)] = "}"

RECURSIVE processRuleGroupMongoDB(_, _, _, _)
processRuleGroupMongoDB(rg, path, outermost, o) ==
  IF ~GroupIsValid(rg, path, o)
  THEN (IF outermost THEN <<EffectiveFallback(o)>> ELSE <<>>)
  ELSE
    LET combinator == "\"$" \o rg.combinator \o "\""
        sub == [i \in DOMAIN rg.rules |->
                  IF isRuleGroup(rg.rules[i])
                  THEN processRuleGroupMongoDB(rg.rules[i], Append(path, i), FALSE, o)
                  ELSE <<>>]
        hasChildRules ==
          \E i \in DOMAIN rg.rules : isRuleGroup(rg.rules[i]) /\ sub[i] # <<>>
        mapped ==
          [i \in DOMAIN rg.rules |->
             LET rule == rg.rules[i]
             IN IF isRuleGroup(rule)
                  THEN (IF sub[i] # <<>>
                        THEN (IF IsBraced(sub[i]) THEN sub[i]
                              ELSE <<"{">> \o sub[i] \o <<"}">>)
                        ELSE <<>>)
                ELSE IF RuleIsDropped(rule, Append(path, i), o) THEN <<>>
                ELSE defaultRuleProcessorMongoDB(rule)]
        expressions == FilterNonEmpty(mapped)
    IN IF Len(expressions) > 0
       THEN (IF Len(expressions) = 1 /\ ~hasChildRules THEN expressions[1]
             ELSE <<combinator, ":[">> \o JoinText(expressions, <<",">>) \o <<"]">>)
       ELSE <<EffectiveFallback(o)>>

formatMongoDB(ruleGroup, o) ==
  LET processedQuery == processRuleGroupMongoDB(ruleGroup, <<>>, TRUE, o)
  IN IF IsBraced(processedQuery) THEN processedQuery
     ELSE <<"{">> \o processedQuery \o <<"}">>

\* ------------------------------------- the default PostgREST rule processor

IsNumericString(s) == \E n \in 0..MaxNumber : ToString(n) = s
NumericValue(s) == CHOOSE n \in 0..MaxNumber : ToString(n) = s

\* toArray: an array is itself; a string is split at commas and its blank
\* items are dropped (the model's strings hold no comma); a number is a
\* one-element list; anything else is the empty list.
toArray(v) ==
  IF v.t = "arr" THEN v.a
  ELSE IF v.t = "str" THEN (IF v.s = "" THEN <<>> ELSE <<v>>)
  ELSE IF v.t = "num" THEN <<v>>
  ELSE <<>>

isValidValue(v) == IF v.t = "str" THEN v.s # "" ELSE TRUE

shouldRenderAsNumber(v, parseNumbers) ==
  parseNumbers /\ (v.t = "num" \/ (v.t = "str" /\ IsNumericString(v.s)))

parseNumber(v) ==
  IF v.t = "str" /\ IsNumericString(v.s) THEN JNum(NumericValue(v.s)) ELSE v

convertOperator(op) == IF op = "=" THEN "==" ELSE op

\* /^(does)?not/i.test(op)
IsNotOp(op) ==
  op \in {"notIn", "notBetween", "notNull", "doesNotContain",
          "doesNotBeginWith", "doesNotEndWith"}

negateIfNotOp(op, jsonRule) ==
  IF IsNotOp(op) THEN JObj1("not", jsonRule) ELSE jsonRule

fieldOrNumberRenderer(v, valueIsField, parseNumbers) ==
  IF valueIsField THEN JVar(ValueText(v))
  ELSE IF shouldRenderAsNumber(v, parseNumbers) THEN parseNumber(v)
  ELSE v

\* secondNum < firstNum
NumLess_Never(a, b) == FALSE

NumLess(a, b) == a.n < b.n

\* The result is a JSON object, or JBool(FALSE) for "no rule".
defaultRuleProcessorPostgREST(rule, parseNumbers) ==
  LET operator == rule.operator
      value == rule.value
      valueIsField == rule.valueSource = "field"
      fieldObject == JVar(rule.field)
      render(v) == fieldOrNumberRenderer(v, valueIsField, parseNumbers)
  IN
  IF operator \in {"<", "<=", "=", "!=", ">", ">="}
    THEN JObj1(convertOperator(operator), JArr(<<fieldObject, render(value)>>))
  ELSE IF operator \in {"null", "notNull"}
    THEN JObj1(IF operator = "notNull" THEN "!=" ELSE "==", JArr(<<fieldObject, JNull>>))
  ELSE IF operator \in {"in", "notIn"}
    THEN LET arr == toArray(value)
             valueAsArray == [i \in DOMAIN arr |-> render(arr[i])]
         IN negateIfNotOp(operator, JObj1("in", JArr(<<fieldObject, JArr(valueAsArray)>>)))
  ELSE IF operator \in {"between", "notBetween"}
    THEN LET valueAsArray == toArray(value)
         IN IF /\ Len(valueAsArray) >= 2
               /\ isValidValue(valueAsArray[1])
               /\ isValidValue(valueAsArray[2])
            THEN LET first == valueAsArray[1]
                     second == valueAsArray[2]
                     numeric == /\ ~valueIsField
                                /\ shouldRenderAsNumber(first, TRUE)
                                /\ shouldRenderAsNumber(second, TRUE)
                     firstNum == parseNumber(first)
                     secondNum == parseNumber(second)
                     lo == IF numeric
                           THEN (IF NumLess(secondNum, firstNum) THEN secondNum ELSE firstNum)
                           ELSE IF valueIsField THEN JVar(ValueText(first)) ELSE first
                     hi == IF numeric
                           THEN (IF NumLess(secondNum, firstNum) THEN firstNum ELSE secondNum)
                           ELSE IF valueIsField THEN JVar(ValueText(second)) ELSE second
                 IN negateIfNotOp(operator, JObj1("<=", JArr(<<lo, fieldObject, hi>>)))
            ELSE JBool(FALSE)
  ELSE IF operator \in {"contains", "doesNotContain"}
    THEN negateIfNotOp(operator, JObj1("in", JArr(<<render(value), fieldObject>>)))
  ELSE IF operator \in {"beginsWith", "doesNotBeginWith"}
    THEN negateIfNotOp(operator, JObj1("startsWith", JArr(<<fieldObject, render(value)>>)))
  ELSE IF operator \in {"endsWith", "doesNotEndWith"}
    THEN negateIfNotOp(operator, JObj1("endsWith", JArr(<<fieldObject, render(value)>>)))
  ELSE JBool(FALSE)

\* ------------------------- formatQuery: jsonlogic, postgrest, elasticsearch

\* filter(Boolean) on a sequence of JSON results: false is dropped.
RECURSIVE FilterTruthy(_)
FilterTruthy(js) ==
  IF js = <<>> THEN <<>>
  ELSE IF Head(js) = JBool(FALSE) THEN FilterTruthy(Tail(js))
       ELSE <<Head(js)>> \o FilterTruthy(Tail(js))

ObjectRuleProcessor(rule, o) ==
  IF o.format = "postgrest" THEN defaultRuleProcessorPostgREST(rule, o.parseNumbers)
  ELSE defaultRuleProcessorObject(rule)

\* The jsonlogic region and the postgrest region are the same code.
RECURSIVE processRuleGroupJsonLogic(_, _, _)
processRuleGroupJsonLogic(rg, path, o) ==
  IF ~GroupIsValid(rg, path, o) THEN JBool(FALSE)
  ELSE
    LET processedRules ==
          FilterTruthy(
            [i \in DOMAIN rg.rules |->
               LET rule == rg.rules[i]
               IN IF isRuleGroup(rule)
                    THEN processRuleGroupJsonLogic(rule, Append(path, i), o)
                  ELSE IF RuleIsDropped(rule, Append(path, i), o) THEN JBool(FALSE)
                  ELSE ObjectRuleProcessor(rule, o)])
        jsonRuleGroup == JObj1(rg.combinator, JArr(processedRules))
    IN IF Len(processedRules) = 0 THEN JBool(FALSE)
       ELSE IF rg.not THEN JObj1("!", jsonRuleGroup) ELSE jsonRuleGroup

RECURSIVE processRuleGroupElasticSearch(_, _, _)
processRuleGroupElasticSearch(rg, path, o) ==
  IF ~GroupIsValid(rg, path, o) THEN JBool(FALSE)
  ELSE
    LET processedRules ==
          FilterTruthy(
            [i \in DOMAIN rg.rules |->
               LET rule == rg.rules[i]
               IN IF isRuleGroup(rule)
                    THEN processRuleGroupElasticSearch(rule, Append(path, i), o)
                  ELSE IF RuleIsDropped(rule, Append(path, i), o) THEN JBool(FALSE)
                  ELSE ObjectRuleProcessor(rule, o)])
        arr == JArr(processedRules)
    IN IF Len(processedRules) = 0 THEN JBool(FALSE)
       ELSE JObj1("bool",
              IF rg.not
              THEN JObj1("must_not",
                     IF rg.combinator = "or" THEN JObj1("bool", JObj1("should", arr))
                     ELSE arr)
              ELSE JObj1(IF rg.combinator = "or" THEN "should" ELSE "must", arr))

formatElasticSearch(ruleGroup, o) ==
  LET processedRuleGroup == processRuleGroupElasticSearch(ruleGroup, <<>>, o)
  IN IF processedRuleGroup = JBool(FALSE) THEN JObj(<<>>) ELSE processedRuleGroup

\* --------------------- formatQuery: parameterized and parameterized_named

\* The accumulators of one call: the positional list, the named map (a set
\* of name/value entries with distinct names), and the per-field sets of
\* parameter names (fieldParams: the set of field/name pairs; hasSet: the
\* fields the Map has an entry for).  issued is a history of the calls of
\* getNextNamedParam: the name returned and the names recorded for the
\* field, and held by the named map, when it was returned.
FreshAccumulators ==
  [params |-> <<>>, paramsNamed |-> {}, fieldParams |-> {}, hasSet |-> {},
   issued |-> <<>>]

NamesOfField(acc, field) == {e.name : e \in {x \in acc.fieldParams : x.field = field}}

NextNamedParam(acc, field) ==
  field \o "_" \o ToString(Cardinality(NamesOfField(acc, field)) + 1)

getNextNamedParam(acc, field) ==
  LET nextNamedParam == NextNamedParam(acc, field)
  IN [acc EXCEPT
        !.hasSet = @ \cup {field},
        !.fieldParams = @ \cup {[field |-> field, name |-> nextNamedParam]},
        !.issued = Append(@, [name |-> nextNamedParam, field |-> field,
                              recorded |-> NamesOfField(acc, field),
                              held |-> {e.name : e \in acc.paramsNamed}])]

RECURSIVE CallGetNextNamedParam(_, _, _)
CallGetNextNamedParam(acc, field, times) ==
  IF times = 0 THEN acc
  ELSE CallGetNextNamedParam(getNextNamedParam(acc, field), field, times - 1)

\* Object.assign(paramsNamed, customParams)
AssignParams(paramsNamed, customParams) ==
  {e \in paramsNamed : e.name \notin {c.name : c \in customParams}} \cup customParams

\* A rule processor, as far as formatQuery can see it: it calls
\* getNextNamedParam(rule.field) beh.calls times, and returns a value that
\* is a plain object or not (beh.pojo), with an sql text that is empty or
\* not (beh.sql), and params: one per name it was given plus one per name
\* it invented itself (beh.invent, a sequence of suffixes appended to the
\* field's name), or none at all (beh.params = FALSE).
\* The default processor asks for one name per value and invents none.
DefaultBehaviour == [calls |-> 1, invent |-> <<>>, pojo |-> TRUE, sql |-> TRUE, params |-> TRUE]

RuleHead(rule) == rule.field \o " " \o rule.operator

RuleProcessorParams(rule, beh, before, after, o) ==
  LET given == {after.issued[i].name : i \in (Len(before.issued) + 1)..Len(after.issued)}
      invented == {rule.field \o beh.invent[i] : i \in DOMAIN beh.invent}
      count == beh.calls + Len(beh.invent)
  IN IF ~beh.params THEN [array |-> FALSE, pojo |-> FALSE, list |-> <<>>, map |-> {}]
     ELSE IF o.format = "parameterized"
       THEN [array |-> TRUE, pojo |-> FALSE,
             list |-> [i \in 1..count |-> rule.value], map |-> {}]
     ELSE [array |-> FALSE, pojo |-> TRUE, list |-> <<>>,
           map |-> {[name |-> n, value |-> rule.value] : n \in given \cup invented}]

RuleProcessorSQL(rule, beh) ==
  IF beh.sql THEN <<RuleHead(rule)>> \o [i \in 1..(beh.calls + Len(beh.invent)) |-> "?"]
  ELSE <<>>

PushParams_Front(params, customParams) == customParams \o params

\* params.push(...customParams)
PushParams(params, customParams) == params \o customParams

\* processRule: the text of one rule, and the accumulators after it.
processRule(rule, path, acc, o, beh) ==
  IF RuleIsDropped(rule, path, o) THEN [sql |-> <<>>, acc |-> acc]
  ELSE
    LET called == IF o.format = "parameterized_named"
                  THEN CallGetNextNamedParam(acc, rule.field, beh.calls)
                  ELSE acc
        sql == RuleProcessorSQL(rule, beh)
        customParams == RuleProcessorParams(rule, beh, acc, called, o)
    IN IF ~beh.pojo THEN [sql |-> <<>>, acc |-> called]
       ELSE IF sql = <<>> THEN [sql |-> <<>>, acc |-> called]
       ELSE IF o.format = "parameterized" /\ customParams.array
         THEN [sql |-> sql,
               acc |-> [called EXCEPT !.params = PushParams(@, customParams.list)]]
       ELSE IF o.format = "parameterized_named" /\ customParams.pojo
         THEN [sql |-> sql,
               acc |-> [called EXCEPT
                          !.paramsNamed = AssignParams(@, customParams.map),
                          !.fieldParams =
                             IF rule.field \in called.hasSet
                             THEN @ \cup {[field |-> rule.field, name |-> c.name] :
                                            c \in customParams.map}
                             ELSE @]]
       ELSE [sql |-> sql, acc |-> called]

BehaviourAt(script, path) ==
  IF path \in DOMAIN script THEN script[path] ELSE DefaultBehaviour

\* processRuleGroup of the parameterized region, with the accumulators
\* threaded through the walk: MapRulesParam maps the children from index i
\* on, left to right.
RECURSIVE processRuleGroupParam(_, _, _, _, _, _)
RECURSIVE MapRulesParam(_, _, _, _, _, _)
MapRulesParam(rg, path, i, acc, o, script) ==
  IF i > Len(rg.rules) THEN [processedRules |-> <<>>, acc |-> acc]
  ELSE
    LET rule == rg.rules[i]
        here == IF isCombinatorToken(rule) THEN [sql |-> <<rule.comb>>, acc |-> acc]
                ELSE IF isRuleGroup(rule)
                  THEN processRuleGroupParam(rule, Append(path, i),
                                             Len(rg.rules) = 1, acc, o, script)
                ELSE processRule(rule, Append(path, i), acc, o,
                                 BehaviourAt(script, Append(path, i)))
        rest == MapRulesParam(rg, path, i + 1, here.acc, o, script)
    IN [processedRules |-> <<here.sql>> \o rest.processedRules, acc |-> rest.acc]

processRuleGroupParam(rg, path, outermostOrLonelyInGroup, acc, o, script) ==
  IF ~GroupIsValid(rg, path, o)
  THEN [sql |-> IF outermostOrLonelyInGroup THEN <<EffectiveFallback(o)>> ELSE <<>>,
        acc |-> acc]
  ELSE
    LET mapped == MapRulesParam(rg, path, 1, acc, o, script)
    IN [sql |-> JoinSQLGroup(rg, mapped.processedRules, o), acc |-> mapped.acc]

\* The two parameterized formats: the value returned, and the accumulators
\* the walk ended with.
walkParameterized(ruleGroup, o, script) ==
  processRuleGroupParam(ruleGroup, <<>>, TRUE, FreshAccumulators, o, script)

formatParameterized(ruleGroup, o, script) ==
  LET r == walkParameterized(ruleGroup, o, script)
  IN IF o.format = "parameterized"
     THEN [t |-> "parameterized", sql |-> r.sql, params |-> r.acc.params]
     ELSE [t |-> "parameterized_named", sql |-> r.sql, params |-> r.acc.paramsNamed]

\* The history of the calls of getNextNamedParam made during a call of
\* formatQuery.
IssuedNames(ruleGroup, o, script) ==
  IF o.format = "parameterized_named"
     /\ ~(IsBooleanResult(o.validation) /\ ~o.validation.bool)
  THEN walkParameterized(ruleGroup, o, script).acc.issued
  ELSE <<>>

\* ---------------------------------------------------- formatQuery: json

\* numerifyValues: a copy of the tree in which every numeric string value
\* is the number it denotes.
RECURSIVE numerifyValues(_)
numerifyValues(rg) ==
  [rg EXCEPT !.rules =
     [i \in DOMAIN rg.rules |->
        LET rule == rg.rules[i]
        IN IF isCombinatorToken(rule) THEN rule
           ELSE IF isRuleGroup(rule) THEN numerifyValues(rule)
           ELSE [rule EXCEPT !.value = parseNumber(@)]]]

\* JSON.stringify of the tree: "json" keeps every key, "json_without_ids"
\* drops the id and path keys and nothing else.
formatJSON(ruleGroup, o) ==
  [t |-> "json", ids |-> o.format = "json",
   query |-> IF o.parseNumbers THEN numerifyValues(ruleGroup) ELSE ruleGroup]

\* The caller's tree after the JSON region: with parseNumbers, rg is the
\* tree produce() builds from the caller's, which stays as it was.
produce(base, next) == [base |-> base, next |-> next]

TreeAfterJSON_InPlace(ruleGroup, o) ==
  IF o.parseNumbers THEN numerifyValues(ruleGroup) ELSE ruleGroup

TreeAfterJSON(ruleGroup, o) ==
  IF o.parseNumbers THEN produce(ruleGroup, numerifyValues(ruleGroup)).base
  ELSE ruleGroup

\* -------------------------------------- formatQuery: independent combinators

\* convertFromIC, for groups whose combinator tokens are all the same: a
\* new group with that combinator ('and' when there is no token) and the
\* children that are not tokens, the groups among them converted.
RECURSIVE SkipTokens(_)
RECURSIVE convertFromIC(_)
SkipTokens(rules) ==
  IF rules = <<>> THEN <<>>
  ELSE IF isCombinatorToken(Head(rules)) THEN SkipTokens(Tail(rules))
  ELSE IF isRuleGroup(Head(rules))
    THEN <<convertFromIC(Head(rules))>> \o SkipTokens(Tail(rules))
  ELSE <<Head(rules)>> \o SkipTokens(Tail(rules))

convertFromIC(rg) ==
  IF isRuleGroupType(rg) THEN rg
  ELSE [combinator |-> IF Len(rg.rules) < 2 THEN "and" ELSE rg.rules[2].comb,
        not |-> rg.not,
        rules |-> SkipTokens(rg.rules)]

\* const query = isRuleGroupType(ruleGroup) ? ruleGroup : convertFromIC(ruleGroup)
StandardForm(ruleGroup) ==
  IF isRuleGroupType(ruleGroup) THEN ruleGroup ELSE convertFromIC(ruleGroup)

\* The caller's tree after the conversion: convertFromIC builds a new
\* group and leaves its argument as it was.
TreeAfterConversion(ruleGroup) == ruleGroup

\* ------------------------------------------------------------ formatQuery

Text(toks) == [t |-> "text", toks |-> toks]

\* What formatQuery returns when the validator answers false.
ValidatorFalseResult(o) ==
  LET fallbackExpression == EffectiveFallback(o)
  IN IF o.format = "parameterized"
       THEN [t |-> "parameterized", sql |-> <<fallbackExpression>>, params |-> <<>>]
     ELSE IF o.format = "parameterized_named"
       THEN [t |-> "parameterized_named", sql |-> <<fallbackExpression>>, params |-> {}]
     ELSE IF o.format = "mongodb" THEN Text(<<"{", fallbackExpression, "}">>)
     ELSE IF o.format = "jsonlogic" THEN JBool(FALSE)
     ELSE IF o.format = "elasticsearch" THEN JObj(<<>>)
     ELSE Text(<<fallbackExpression>>)

ValidatorSaysFalse_Ignored(o) == FALSE

ValidatorSaysFalse(o) == IsBooleanResult(o.validation) /\ ~o.validation.bool

formatQuery(ruleGroup, o, script) ==
  IF o.format \in {"json", "json_without_ids"} THEN formatJSON(ruleGroup, o)
  ELSE IF ValidatorSaysFalse(o) THEN ValidatorFalseResult(o)
  ELSE IF o.format = "sql" THEN Text(processRuleGroupSQL(ruleGroup, <<>>, TRUE, o))
  ELSE IF o.format \in {"parameterized", "parameterized_named"}
    THEN formatParameterized(ruleGroup, o, script)
  ELSE IF o.format = "mongodb" THEN Text(formatMongoDB(StandardForm(ruleGroup), o))
  ELSE IF o.format \in {"cel", "spel", "jsonata"}
    THEN Text(processRuleGroupExpr(ruleGroup, <<>>, TRUE, o))
  ELSE IF o.format \in {"jsonlogic", "postgrest"}
    THEN processRuleGroupJsonLogic(StandardForm(ruleGroup), <<>>, o)
  ELSE IF o.format = "elasticsearch"
    THEN formatElasticSearch(StandardForm(ruleGroup), o)
  ELSE IF o.format = "natural_language"
    THEN Text(processRuleGroupNL(ruleGroup, <<>>, TRUE, o))
  ELSE Text(<<>>)

\* ---------------------------------------------------------------- JSON text
\* A string handed to parsePostgREST is a sequence of tokens: punctuation,
\* and the scalar literals (a string literal is also what an object key is).

Punct(p) == [t |-> "punct", p |-> p]

SyntaxError == [t |-> "SyntaxError"]
TypeError == [t |-> "TypeError"]

RECURSIVE JSONstringify(_)
RECURSIVE StringifyElements(_)
RECURSIVE StringifyMembers(_)
StringifyElements(a) ==
  IF a = <<>> THEN <<>>
  ELSE JSONstringify(Head(a))
       \o (IF Len(a) > 1 THEN <<Punct(",")>> ELSE <<>>)
       \o StringifyElements(Tail(a))

StringifyMembers(e) ==
  IF e = <<>> THEN <<>>
  ELSE <<JStr(Head(e).k), Punct(":")>> \o JSONstringify(Head(e).v)
       \o (IF Len(e) > 1 THEN <<Punct(",")>> ELSE <<>>)
       \o StringifyMembers(Tail(e))

JSONstringify(v) ==
  IF v.t = "arr" THEN <<Punct("[")>> \o StringifyElements(v.a) \o <<Punct("]")>>
  ELSE IF v.t = "obj" THEN <<Punct("{")>> \o StringifyMembers(v.e) \o <<Punct("}")>>
  ELSE <<v>>

\* JSON.parse, by recursive descent.  ParseValue reads one value from the
\* front of the tokens: [ok |-> TRUE, v |-> the value, rest |-> what follows]
\* or [ok |-> FALSE].
ParseFailed == [ok |-> FALSE]
Parsed(v, rest) == [ok |-> TRUE, v |-> v, rest |-> rest]

\* Assigning a key of an object under construction: a repeated key keeps
\* its place and takes the later value.
SetEntry(e, k, v) ==
  IF \E i \in DOMAIN e : e[i].k = k
  THEN [i \in DOMAIN e |-> IF e[i].k = k THEN [k |-> k, v |-> v] ELSE e[i]]
  ELSE Append(e, [k |-> k, v |-> v])

RECURSIVE ParseValue(_)
RECURSIVE ParseElements(_, _, _)
RECURSIVE ParseMembers(_, _, _)
ParseElements(toks, acc, first) ==
  IF toks = <<>> THEN ParseFailed
  ELSE IF first /\ Head(toks) = Punct("]") THEN Parsed(JArr(acc), Tail(toks))
  ELSE LET r == ParseValue(toks)
       IN IF ~r.ok THEN ParseFailed
          ELSE IF r.rest = <<>> THEN ParseFailed
          ELSE IF Head(r.rest) = Punct(",")
            THEN ParseElements(Tail(r.rest), Append(acc, r.v), FALSE)
          ELSE IF Head(r.rest) = Punct("]")
            THEN Parsed(JArr(Append(acc, r.v)), Tail(r.rest))
          ELSE ParseFailed

ParseMembers(toks, acc, first) ==
  IF toks = <<>> THEN ParseFailed
  ELSE IF first /\ Head(toks) = Punct("}") THEN Parsed(JObj(acc), Tail(toks))
  ELSE IF Len(toks) < 3 \/ toks[1].t # "str" \/ toks[2] # Punct(":") THEN ParseFailed
  ELSE LET r == ParseValue(SubSeq(toks, 3, Len(toks)))
       IN IF ~r.ok THEN ParseFailed
          ELSE IF r.rest = <<>> THEN ParseFailed
          ELSE IF Head(r.rest) = Punct(",")
            THEN ParseMembers(Tail(r.rest), SetEntry(acc, toks[1].s, r.v), FALSE)
          ELSE IF Head(r.rest) = Punct("}")
            THEN Parsed(JObj(SetEntry(acc, toks[1].s, r.v)), Tail(r.rest))
          ELSE ParseFailed

ParseValue(toks) ==
  IF toks = <<>> THEN ParseFailed
  ELSE IF Head(toks) = Punct("[") THEN ParseElements(Tail(toks), <<>>, TRUE)
  ELSE IF Head(toks) = Punct("{") THEN ParseMembers(Tail(toks), <<>>, TRUE)
  ELSE IF Head(toks).t = "punct" THEN ParseFailed
  ELSE Parsed(Head(toks), Tail(toks))

\* The value of the text, or SyntaxError.
JSONparse(toks) ==
  LET r == ParseValue(toks)
  IN IF r.ok /\ r.rest = <<>> THEN r.v ELSE SyntaxError

\* ------------------------------------------- parsePostgREST: type guards

isPojo(v) == v.t = "obj"

\* 'k' in logic, and logic[k], for a plain object.
HasKey(logic, k) == isPojo(logic) /\ \E i \in DOMAIN logic.e : logic.e[i].k = k
GetKey(logic, k) == logic.e[CHOOSE i \in DOMAIN logic.e : logic.e[i].k = k].v

\* Reading a property of null or undefined raises a TypeError.
PropertyReadThrows(v) == v.t \in {"null", "undef"}

\* v.length: the length of an array or a string, undefined (-1) otherwise.
LengthOf(v) ==
  IF v.t = "arr" THEN Len(v.a) ELSE IF v.t = "str" THEN Len(v.s) ELSE -1

\* v[i], i counted from 0.  The characters of a string are not modelled:
\* an element of a string is a string, which no guard below tells from
\* any other string.
ElementAt(v, i) ==
  IF v.t = "arr" THEN (IF i < Len(v.a) THEN v.a[i + 1] ELSE JUndef)
  ELSE IF v.t = "str" THEN (IF i < Len(v.s) THEN JStr("") ELSE JUndef)
  ELSE JUndef

IsArray(v) == v.t = "arr"

isPostgRESTVar(logic) == HasKey(logic, "var")
isRQBPostgRESTVar(logic) == isPostgRESTVar(logic) /\ GetKey(logic, "var").t = "str"
isPostgRESTEqual(logic) == HasKey(logic, "==")
isPostgRESTStrictEqual(logic) == HasKey(logic, "===")
isPostgRESTNotEqual(logic) == HasKey(logic, "!=")
isPostgRESTStrictNotEqual(logic) == HasKey(logic, "!==")
isPostgRESTNegation(logic) == HasKey(logic, "!")
isPostgRESTDoubleNegation(logic) == HasKey(logic, "!!")
isPostgRESTOr(logic) == HasKey(logic, "or")
isPostgRESTAnd(logic) == HasKey(logic, "and")
isPostgRESTGreaterThan(logic) == HasKey(logic, ">")
isPostgRESTGreaterThanOrEqual(logic) == HasKey(logic, ">=")

\* The four guards that read a property of the operand: each has a
\* companion telling when that read raises.
isPostgRESTLessThanThrows(logic) ==
  HasKey(logic, "<") /\ PropertyReadThrows(GetKey(logic, "<"))
isPostgRESTLessThan(logic) ==
  HasKey(logic, "<") /\ LengthOf(GetKey(logic, "<")) = 2
isPostgRESTLessThanOrEqualThrows(logic) ==
  HasKey(logic, "<=") /\ PropertyReadThrows(GetKey(logic, "<="))
isPostgRESTLessThanOrEqual(logic) ==
  HasKey(logic, "<=") /\ LengthOf(GetKey(logic, "<=")) = 2
isPostgRESTInThrows(logic) ==
  HasKey(logic, "in") /\ PropertyReadThrows(GetKey(logic, "in"))
isPostgRESTInArray(logic) ==
  HasKey(logic, "in") /\ IsArray(ElementAt(GetKey(logic, "in"), 1))
isPostgRESTInString(logic) ==
  HasKey(logic, "in") /\ ~IsArray(ElementAt(GetKey(logic, "in"), 1))

isPostgRESTBetweenExclusive(logic) ==
  HasKey(logic, "<") /\ IsArray(GetKey(logic, "<")) /\ Len(GetKey(logic, "<").a) = 3
isPostgRESTBetweenInclusive(logic) ==
  HasKey(logic, "<=") /\ IsArray(GetKey(logic, "<=")) /\ Len(GetKey(logic, "<=").a) = 3

isRQBPostgRESTStartsWith(logic) == HasKey(logic, "startsWith")
isRQBPostgRESTEndsWith(logic) == HasKey(logic, "endsWith")

\* ------------------------------------------- parsePostgREST: processLogic
\* processLogic returns a rule, a group, false (JBool(FALSE)), or raises
\* (TypeError).  The options read are listsAsArrays, fields (a set of field
\* names, empty when none is supplied), independentCombinators and
\* PostgRESTOperations (a set of [key, result]: a caller's function for the
\* key, and what it returns).

emptyRuleGroup == Group("and", FALSE, <<>>)

defaultOperatorNegationMap(op) ==
  CASE op = "between" -> "notBetween"
    [] op = "in" -> "notIn"
    [] op = "contains" -> "doesNotContain"
    [] op = "beginsWith" -> "doesNotBeginWith"
    [] op = "endsWith" -> "doesNotEndWith"
    [] OTHER -> op

\* fieldIsValidUtil without operator lists and value-source resolvers: with
\* no field list every field is valid; otherwise the field is listed, and
\* a subordinate field is listed and is another field.
fieldIsValid(opt, fieldName, operator, subordinateFieldName) ==
  \/ opt.fields = {}
  \/ /\ fieldName \in opt.fields
     /\ \/ subordinateFieldName = JUndef
        \/ /\ subordinateFieldName.t = "str"
           /\ subordinateFieldName.s \in opt.fields
           /\ subordinateFieldName.s # fieldName

RECURSIVE joinWith(_, _)
joinWith(strs, sep) ==
  IF strs = <<>> THEN ""
  ELSE IF Len(strs) = 1 THEN Head(strs)
  ELSE Head(strs) \o sep \o joinWith(Tail(strs), sep)

\* Object.entries(logic || {})?.[0] ?? []
FirstEntry(logic) ==
  IF logic.t = "obj" /\ logic.e # <<>>
    THEN [defined |-> TRUE, k |-> logic.e[1].k, v |-> logic.e[1].v]
  ELSE IF logic.t \in {"arr", "str"} /\ LengthOf(logic) > 0
    THEN [defined |-> TRUE, k |-> "0", v |-> ElementAt(logic, 0)]
  ELSE [defined |-> FALSE, k |-> "", v |-> JUndef]

HasOperation(opt, entry) ==
  entry.defined /\ \E op \in opt.PostgRESTOperations : op.key = entry.k

OperationResult(opt, entry) ==
  (CHOOSE op \in opt.PostgRESTOperations : op.key = entry.k).result

WrapIfOutermost(rule, outermost) ==
  IF outermost THEN Group("and", FALSE, <<rule>>) ELSE rule

\* The custom operations branch, given what the caller's function returned.
CustomOperation(rule, outermost) ==
  IF rule = JBool(FALSE) THEN JBool(FALSE)
  ELSE IF outermost /\ ~isRuleGroup(rule) THEN Group("and", FALSE, <<rule>>)
  ELSE rule

\* { combinator, rules: operand.map(processLogic).filter(Boolean) }, given
\* the results of the elements; an element that raises ends the call.
ReconstructGroup(combinator, processed) ==
  IF TypeError \in Range(processed) THEN TypeError
  ELSE Group(combinator, FALSE, FilterTruthy(processed))

\* { ...rule, not: true }
WithNot(rule) ==
  [k \in DOMAIN rule \cup {"not"} |-> IF k = "not" THEN TRUE ELSE rule[k]]

NegatableOperators == {"between", "in", "contains", "beginsWith", "endsWith"}

NegateOperator_Kept(rule) == rule

NegateOperator(rule) ==
  [rule EXCEPT !.operator = defaultOperatorNegationMap(@)]

\* The negation branch, given the operand of "!" and what it reconstructs to.
Negation(rule, inner, outermost) ==
  IF rule = TypeError THEN TypeError
  ELSE IF rule = JBool(FALSE) THEN JBool(FALSE)
  ELSE IF ~isRuleGroupType(rule) /\ rule.operator \in NegatableOperators
    THEN WrapIfOutermost(NegateOperator(rule), outermost)
  ELSE IF isPostgRESTBetweenExclusive(inner) \/ isRuleGroupType(rule)
    THEN WithNot(rule)
  ELSE Group("and", TRUE, <<rule>>)

\* The guard of the binary operations: "T", "F", or "X" when evaluating it
\* raises.  The guards are evaluated left to right and the first that holds
\* ends the evaluation.
BasicOperationGuard(logic) ==
  IF \/ isPostgRESTEqual(logic) \/ isPostgRESTStrictEqual(logic)
     \/ isPostgRESTNotEqual(logic) \/ isPostgRESTStrictNotEqual(logic)
     \/ isPostgRESTGreaterThan(logic) \/ isPostgRESTGreaterThanOrEqual(logic)
    THEN "T"
  ELSE IF isPostgRESTLessThanThrows(logic) THEN "X"
  ELSE IF isPostgRESTLessThan(logic) THEN "T"
  ELSE IF isPostgRESTLessThanOrEqualThrows(logic) THEN "X"
  ELSE IF isPostgRESTLessThanOrEqual(logic) THEN "T"
  ELSE IF isPostgRESTInThrows(logic) THEN "X"
  ELSE IF isPostgRESTInString(logic) THEN "T"
  ELSE IF isRQBPostgRESTStartsWith(logic) \/ isRQBPostgRESTEndsWith(logic) THEN "T"
  ELSE "F"

\* "Translate operator if necessary": the operator, or "X" when the
\* evaluation of isPostgRESTInString raises.
TranslateOperator(logic, key, value) ==
  IF isPostgRESTEqual(logic) \/ isPostgRESTStrictEqual(logic)
    THEN (IF value = JNull THEN "null" ELSE "=")
  ELSE IF isPostgRESTNotEqual(logic) \/ isPostgRESTStrictNotEqual(logic)
    THEN (IF value = JNull THEN "notNull" ELSE "!=")
  ELSE IF isPostgRESTInThrows(logic) THEN "X"
  ELSE IF isPostgRESTInString(logic) THEN "contains"
  ELSE IF isRQBPostgRESTStartsWith(logic) THEN "beginsWith"
  ELSE IF isRQBPostgRESTEndsWith(logic) THEN "endsWith"
  ELSE key

\* The binary operations.  Destructuring [first, second] raises unless the
\* operand is iterable (an array or a string).
BasicOperation(logic, key, keyValue, outermost, opt) ==
  IF keyValue.t \notin {"arr", "str"} THEN TypeError
  ELSE
    LET first == ElementAt(keyValue, 0)
        second == ElementAt(keyValue, 1)
        shape == IF isRQBPostgRESTVar(first) /\ ~isPojo(second) THEN 1
                 ELSE IF ~isPojo(first) /\ isRQBPostgRESTVar(second) THEN 2
                 ELSE IF isRQBPostgRESTVar(first) /\ isRQBPostgRESTVar(second) THEN 3
                 ELSE 0
        field == IF shape = 2 THEN GetKey(second, "var").s ELSE GetKey(first, "var").s
        value == IF shape = 1 THEN second
                 ELSE IF shape = 2 THEN first
                 ELSE GetKey(second, "var")
        valueSource == IF shape = 3 THEN "field" ELSE "none"
        operator == TranslateOperator(logic, key, value)
    IN IF shape = 0 THEN JBool(FALSE)
       ELSE IF operator = "X" THEN TypeError
       ELSE IF fieldIsValid(opt, field, operator,
                            IF valueSource = "field" THEN value ELSE JUndef)
         THEN WrapIfOutermost(Rule(field, operator, value, valueSource), outermost)
       ELSE JBool(FALSE)

AllOfType(values, type) == \A i \in DOMAIN values : values[i].t = type

\* values.every(string) || values.every(number) || values.every(boolean)
SameScalarType(values) ==
  AllOfType(values, "str") \/ AllOfType(values, "num") \/ AllOfType(values, "bool")

\* The value of a list rule: the list itself, or its items joined by commas.
ListValue(items, opt) ==
  IF opt.listsAsArrays THEN JArr(items)
  ELSE JStr(joinWith([i \in DOMAIN items |-> ValueText(items[i])], ","))

\* The inclusive between: { "<=": [a, { var }, b] }.
BetweenInclusive(logic, outermost, opt) ==
  LET operand == GetKey(logic, "<=").a
      field == GetKey(operand[2], "var").s
      values == <<operand[1], operand[3]>>
      allVars == \A i \in DOMAIN operand : isRQBPostgRESTVar(operand[i])
      fieldList == SelectSeq([i \in DOMAIN values |-> GetKey(values[i], "var")],
                             LAMBDA sf : fieldIsValid(opt, field, "between", sf))
      value == IF allVars THEN ListValue(fieldList, opt)
               ELSE IF SameScalarType(values) THEN ListValue(values, opt)
               ELSE JStr("")
      valueSource == IF allVars THEN "field" ELSE "none"
  IN IF fieldIsValid(opt, field, "between", JUndef) /\ LengthOf(value) >= 2
     THEN WrapIfOutermost(Rule(field, "between", value, valueSource), outermost)
     ELSE JBool(FALSE)

\* The array membership: { in: [{ var }, [...]] }.
InArray(logic, keyValue, outermost, opt) ==
  LET field == GetKey(ElementAt(keyValue, 0), "var").s
      list == ElementAt(GetKey(logic, "in"), 1).a
      allVars == \A i \in DOMAIN list : isRQBPostgRESTVar(list[i])
      fieldList == SelectSeq([i \in DOMAIN list |-> GetKey(list[i], "var")],
                             LAMBDA sf : fieldIsValid(opt, field, "in", sf))
      value == IF allVars THEN ListValue(fieldList, opt)
               ELSE IF SameScalarType(list) THEN ListValue(list, opt)
               ELSE JStr("")
      valueSource == IF allVars THEN "field" ELSE "none"
  IN IF LengthOf(value) > 0
     THEN WrapIfOutermost(Rule(field, "in", value, valueSource), outermost)
     ELSE JBool(FALSE)

BetweenExclusiveAsAnd_UpperFirst(logic) ==
  LET operand == GetKey(logic, "<").a
      fieldVar == JVar(GetKey(operand[2], "var").s)
  IN JObj1("and", JArr(<<JObj1("<", JArr(<<fieldVar, operand[3]>>)),
                        JObj1(">", JArr(<<fieldVar, operand[1]>>))>>))

\* The two comparisons an exclusive between { "<": [a, { var }, b] } is
\* parsed again as.
BetweenExclusiveAsAnd(logic) ==
  LET operand == GetKey(logic, "<").a
      fieldVar == JVar(GetKey(operand[2], "var").s)
  IN JObj1("and", JArr(<<JObj1(">", JArr(<<fieldVar, operand[1]>>)),
                        JObj1("<", JArr(<<fieldVar, operand[3]>>))>>))

BetweenExclusiveValuesOk(logic) ==
  LET operand == GetKey(logic, "<").a
      values == <<operand[1], operand[3]>>
  IN (\A i \in DOMAIN values : isRQBPostgRESTVar(values[i])) \/ SameScalarType(values)

RECURSIVE processLogic(_, _, _)
processLogic(logic, outermost, opt) ==
  LET entry == FirstEntry(logic)
      key == entry.k
      keyValue == entry.v
      group(combinator) ==
        LET operand == GetKey(logic, combinator)
        IN IF operand.t # "arr" THEN TypeError
           ELSE ReconstructGroup(combinator,
                  [i \in DOMAIN operand.a |-> processLogic(operand.a[i], FALSE, opt)])
      basic == BasicOperationGuard(logic)
  IN
  IF outermost /\ ~isPojo(logic) THEN JBool(FALSE)
  ELSE IF HasOperation(opt, entry)
    THEN CustomOperation(OperationResult(opt, entry), outermost)
  ELSE IF isPostgRESTAnd(logic) THEN group("and")
  ELSE IF isPostgRESTOr(logic) THEN group("or")
  ELSE IF isPostgRESTNegation(logic)
    THEN Negation(processLogic(GetKey(logic, "!"), FALSE, opt),
                  GetKey(logic, "!"), outermost)
  ELSE IF isPostgRESTDoubleNegation(logic)
    THEN processLogic(GetKey(logic, "!!"), FALSE, opt)
  ELSE IF basic = "X" THEN TypeError
  ELSE IF basic = "T" THEN BasicOperation(logic, key, keyValue, outermost, opt)
  ELSE IF /\ isPostgRESTBetweenExclusive(logic)
          /\ isRQBPostgRESTVar(GetKey(logic, "<").a[2])
    THEN (IF BetweenExclusiveValuesOk(logic)
          THEN processLogic(BetweenExclusiveAsAnd(logic), FALSE, opt)
          ELSE JBool(FALSE))
  ELSE IF /\ isPostgRESTBetweenInclusive(logic)
          /\ isRQBPostgRESTVar(GetKey(logic, "<=").a[2])
    THEN BetweenInclusive(logic, outermost, opt)
  ELSE IF isPostgRESTInThrows(logic) THEN TypeError
  ELSE IF isPostgRESTInArray(logic)
    THEN (IF PropertyReadThrows(keyValue) THEN TypeError
          ELSE IF isRQBPostgRESTVar(ElementAt(keyValue, 0))
            THEN InArray(logic, keyValue, outermost, opt)
          ELSE JBool(FALSE))
  ELSE JBool(FALSE)

\* ------------------------------------------------------- parsePostgREST

\* convertToIC: the group without its combinator, its children converted
\* and a token of the combinator between each two of them.
Interleave_AlwaysAnd(rules, combinator) ==
  [i \in 1..(2 * Len(rules) - 1) |->
     IF i % 2 = 1 THEN rules[(i + 1) \div 2] ELSE [comb |-> "and"]]

RECURSIVE convertToIC(_)
RECURSIVE Interleave(_, _)
Interleave(rules, combinator) ==
  IF Len(rules) <= 1 THEN rules
  ELSE <<Head(rules), [comb |-> combinator]>> \o Interleave(Tail(rules), combinator)

convertToIC(rg) ==
  [not |-> rg.not,
   rules |-> Interleave([i \in DOMAIN rg.rules |->
                           IF isRuleGroup(rg.rules[i]) THEN convertToIC(rg.rules[i])
                           ELSE rg.rules[i]],
                        rg.combinator)]

\* What convertToIC may do with a value that is not a group is not known:
\* it returns it, or it raises.
convertToICOutcomes(q) ==
  IF isRuleGroup(q) THEN {convertToIC(q)} ELSE {q, TypeError}

\* The input is a text ([kind |-> "text", toks]) or a value already
\* deserialized ([kind |-> "value", json]).  The result is the set of the
\* values the call may return; TypeError stands for a call that raises.
\* The same, given the object the constant emptyRuleGroup refers to when
\* the call is made: the call returns that object itself, not a copy.
parsePostgRESTFrom(emptyRuleGroupNow, rqbPostgREST, opt) ==
  LET logicRoot == IF rqbPostgREST.kind = "text" THEN JSONparse(rqbPostgREST.toks)
                   ELSE rqbPostgREST.json
      result == processLogic(logicRoot, TRUE, opt)
      finalQuery == IF result = JBool(FALSE) THEN emptyRuleGroupNow ELSE result
  IN IF logicRoot = SyntaxError THEN {emptyRuleGroupNow}
     ELSE IF result = TypeError THEN {TypeError}
     ELSE IF opt.independentCombinators THEN convertToICOutcomes(finalQuery)
     ELSE {finalQuery}

\* Whether the value the call returns is the object emptyRuleGroup refers
\* to (convertToIC builds a new group).
ReturnsEmptyRuleGroup(rqbPostgREST, opt) ==
  LET logicRoot == IF rqbPostgREST.kind = "text" THEN JSONparse(rqbPostgREST.toks)
                   ELSE rqbPostgREST.json
  IN \/ logicRoot = SyntaxError
     \/ /\ processLogic(logicRoot, TRUE, opt) = JBool(FALSE)
        /\ ~opt.independentCombinators

parsePostgREST(rqbPostgREST, opt) == parsePostgRESTFrom(emptyRuleGroup, rqbPostgREST, opt)

\* The caller's tree when formatQuery has returned.  No region assigns to
\* the tree or to a node of it: the regions read rg.rules with map and
\* filter, which build new arrays.
TreeAfterFormatQuery(ruleGroup, o) ==
  IF o.format \in {"json", "json_without_ids"} THEN TreeAfterJSON(ruleGroup, o)
  ELSE IF ValidatorSaysFalse(o) THEN ruleGroup
  ELSE IF o.format \in {"mongodb", "jsonlogic", "elasticsearch", "postgrest"}
    THEN TreeAfterConversion(ruleGroup)
  ELSE ruleGroup

\* ================================================================ state

VARIABLES
  ruleGroup,      \* the tree given to formatQuery
  options,        \* the options of the formatQuery call
  script,         \* the rule processors of the call: what each does, by rule
  fqResult,       \* what formatQuery returned
  issued,         \* the names getNextNamedParam returned during the call
  rqbPostgREST,   \* the input given to parsePostgREST
  parseOptions,   \* the options of the parsePostgREST call
  parseResult,    \* what parsePostgREST returned, or TypeError if it raised
  calls,          \* the formatQuery calls in progress side by side
  effective,      \* the option values formatQuery settled on for the call
  converted,      \* a tree in its two variants, one converted from the other
  heap            \* the object the parser's constant emptyRuleGroup refers to

vars ==
  <<ruleGroup, options, script, fqResult, issued,
    rqbPostgREST, parseOptions, parseResult, calls, effective, converted, heap>>

formatVars == <<ruleGroup, options, script, fqResult, issued>>
parseVars == <<rqbPostgREST, parseOptions, parseResult>>

None == [t |-> "none"]

\* ------------------------------------------------- formatQuery, any format

\* The rule alphabet of the format specification: an ordinary rule, a rule
\* with the default placeholder field, a rule with the default placeholder
\* operator.  Fields, operators and values are distinct from rule to rule.
FormatRules ==
  {Rule("a", "=", JStr("1"), "value"),
   Rule("~", "<", JStr("2"), "value"),
   Rule("b", "~", JStr("3"), "value")}

FormatTrees == TreesOver(FormatRules, MaxNodes)

Validations ==
  {[bool |-> TRUE], [bool |-> FALSE], [valid |-> {}, invalid |-> {<<1>>}]}

FormatOptions ==
  {[format |-> f, fallbackExpression |-> fb, placeholderFieldName |-> pf,
    placeholderOperatorName |-> defaultPlaceholderOperatorName,
    parseNumbers |-> FALSE, validation |-> v,
    fieldValidators |-> {}, rejectedFields |-> {}] :
   f \in Formats, fb \in {"", "fallback"},
   pf \in {defaultPlaceholderFieldName, "a"}, v \in Validations}

NoScript == <<>>

InitFormat ==
  /\ ruleGroup \in FormatTrees
  /\ options = None
  /\ script = NoScript
  /\ fqResult = None
  /\ issued = <<>>
  /\ rqbPostgREST = None
  /\ parseOptions = None
  /\ parseResult = None
  /\ calls = None
  /\ effective = None
  /\ converted = None
  /\ heap = None

FormatQuery ==
  /\ options = None
  /\ \E o \in FormatOptions :
       /\ options' = o
       /\ fqResult' = formatQuery(ruleGroup, o, script)
       /\ issued' = IssuedNames(ruleGroup, o, script)
  /\ UNCHANGED <<ruleGroup, script>>
  /\ UNCHANGED parseVars
  /\ UNCHANGED calls
  /\ UNCHANGED effective
  /\ UNCHANGED converted
  /\ UNCHANGED heap

NextFormat == FormatQuery

SpecFormat == InitFormat /\ [][NextFormat]_vars

\* ------------------------------ formatQuery, the two parameterized formats

ParamRules ==
  {Rule("a", "=", JStr("1"), "value"),
   Rule("b", "<", JStr("2"), "value"),
   Rule("~", "=", JStr("3"), "value")}

\* Largest number of descendants of the root of a tree given to the
\* parameterized formats.
MaxParamNodes == 3

\* The trees given to the parameterized formats: an 'and' root, and nested
\* groups of one kind ('or', negated).
RECURSIVE ParamForest(_)
ParamForest(n) ==
  IF n = 0 THEN {<<>>}
  ELSE {<<>>}
       \cup {<<x>> \o f : x \in ParamRules, f \in ParamForest(n - 1)}
       \cup UNION {{<<Group("or", TRUE, sub)>> \o f :
                       sub \in ParamForest(k), f \in ParamForest(n - 1 - k)}
                   : k \in 0..(n - 1)}

ParamTrees == {Group("and", FALSE, f) : f \in ParamForest(MaxParamNodes)}

\* What a caller's rule processor may do instead of the default: ask for a
\* name and invent another, invent a name without asking for one, return
\* something that is not an object, return an empty sql, return no params.
CustomBehaviours ==
  {[calls |-> 1, invent |-> <<"_3">>, pojo |-> TRUE, sql |-> TRUE, params |-> TRUE],
   [calls |-> 0, invent |-> <<"_1">>, pojo |-> TRUE, sql |-> TRUE, params |-> TRUE],
   [calls |-> 1, invent |-> <<>>, pojo |-> FALSE, sql |-> TRUE, params |-> TRUE],
   [calls |-> 1, invent |-> <<>>, pojo |-> TRUE, sql |-> FALSE, params |-> TRUE],
   [calls |-> 1, invent |-> <<>>, pojo |-> TRUE, sql |-> TRUE, params |-> FALSE]}

\* Largest number of rules of a tree whose processing departs from the
\* default.
MaxCustom == 1

RECURSIVE RulePaths(_, _)
RulePaths(rg, path) ==
  UNION {IF isCombinatorToken(rg.rules[i]) THEN {}
         ELSE IF isRuleGroup(rg.rules[i]) THEN RulePaths(rg.rules[i], Append(path, i))
         ELSE {Append(path, i)} : i \in DOMAIN rg.rules}

Scripts(rg) ==
  UNION {[S -> CustomBehaviours] :
           S \in {T \in SUBSET RulePaths(rg, <<>>) : Cardinality(T) <= MaxCustom}}

ParamOptions ==
  {[format |-> f, fallbackExpression |-> "",
    placeholderFieldName |-> defaultPlaceholderFieldName,
    placeholderOperatorName |-> defaultPlaceholderOperatorName,
    parseNumbers |-> FALSE, validation |-> v,
    fieldValidators |-> {}, rejectedFields |-> {}] :
   f \in {"parameterized", "parameterized_named"}, v \in Validations}

InitParams ==
  /\ ruleGroup \in ParamTrees
  /\ options = None
  /\ script = NoScript
  /\ fqResult = None
  /\ issued = <<>>
  /\ rqbPostgREST = None
  /\ parseOptions = None
  /\ parseResult = None
  /\ calls = None
  /\ effective = None
  /\ converted = None
  /\ heap = None

FormatParameterized ==
  /\ options = None
  /\ \E o \in ParamOptions, s \in Scripts(ruleGroup) :
       /\ options' = o
       /\ script' = s
       /\ fqResult' = formatQuery(ruleGroup, o, s)
       /\ issued' = IssuedNames(ruleGroup, o, s)
  /\ UNCHANGED ruleGroup
  /\ UNCHANGED parseVars
  /\ UNCHANGED calls
  /\ UNCHANGED effective
  /\ UNCHANGED converted
  /\ UNCHANGED heap

NextParams == FormatParameterized

SpecParams == InitParams /\ [][NextParams]_vars

\* ----------------------------------------------------------- parsePostgREST

\* The keys of the binary operations, and the operands such a key is
\* given: well-formed pairs and triples, and operands of the wrong type or
\* arity.
OperationKeys ==
  {"==", "===", "!=", "!==", ">", ">=", "<", "<=", "in", "startsWith", "endsWith"}

LogicOperands ==
  {JArr(<<JVar("a"), JNum(1)>>), JArr(<<JNum(1), JVar("a")>>),
   JArr(<<JVar("a"), JVar("b")>>), JArr(<<JVar("a"), JNull>>),
   JArr(<<JVar("c"), JStr("x")>>), JArr(<<JStr("x"), JVar("a")>>),
   JArr(<<JNum(1), JNum(2)>>), JArr(<<>>), JArr(<<JVar("a")>>),
   JNum(5), JNull, JStr("xy"), JObj(<<>>),
   JArr(<<JNum(1), JVar("a"), JNum(3)>>),
   JArr(<<JVar("b"), JVar("a"), JVar("c")>>),
   JArr(<<JStr("x"), JVar("a"), JNum(3)>>),
   JArr(<<JVar("a"), JArr(<<JNum(1), JNum(2)>>)>>),
   JArr(<<JVar("a"), JArr(<<JVar("b"), JVar("c")>>)>>),
   JArr(<<JVar("c"), JArr(<<JNum(1), JNum(2)>>)>>),
   JArr(<<JVar("a"), JArr(<<>>)>>)}

\* The other keys (a key of a custom operation and two keys no branch
\* knows among them), and the operands they are given.
OtherKeys == {"and", "or", "!", "!!", "not", "custom", "unknown"}

OtherOperands ==
  {JNum(5), JNull, JArr(<<>>), JObj(<<>>), JArr(<<JVar("a"), JNum(1)>>)}

\* One-key objects, the empty object, and two objects whose first key is
\* not the key the guards find.
LeafLogic ==
  {JObj1(k, v) : k \in OperationKeys, v \in LogicOperands}
  \cup {JObj1(k, v) : k \in OtherKeys, v \in OtherOperands}
  \cup {JObj(<<>>),
        JObj(<<[k |-> "<", v |-> JNull],
               [k |-> "==", v |-> JArr(<<JVar("a"), JNum(1)>>)]>>),
        JObj(<<[k |-> "unknown", v |-> JNull],
               [k |-> "in", v |-> JArr(<<JVar("a"), JArr(<<JNum(1)>>)>>)]>>)}

\* Nesting depth of the generated logic objects.
MaxDepth == 2

RECURSIVE LogicOfDepth(_)
LogicOfDepth(d) ==
  IF d = 0 THEN LeafLogic
  ELSE LET inner == LogicOfDepth(d - 1)
       IN inner
          \cup {JObj1("!", x) : x \in inner}
          \cup {JObj1("!!", x) : x \in inner}
          \cup {JObj1("and", JArr(<<x>>)) : x \in inner}
          \cup {JObj1("or", JArr(<<JObj1(">", JArr(<<JVar("b"), JNum(2)>>)), x>>)) :
                  x \in inner}

\* Values that are not plain objects.
NotPlainObjects ==
  {JNum(5), JNull, JBool(TRUE), JArr(<<JObj1("==", JArr(<<JVar("a"), JNum(1)>>))>>)}

\* Texts: the text of a value (a string value among them), that text
\* without its last token, and that text with one token too many.
TextValues ==
  NotPlainObjects
  \cup {JStr("xy"), JObj(<<>>), JObj1("unknown", JNum(1)), JObj1("and", JNum(5)),
        JObj1("==", JArr(<<JVar("a"), JNum(1)>>)),
        JObj1("!", JObj1("in", JArr(<<JVar("a"), JArr(<<JNum(1), JNum(2)>>)>>))),
        JObj1("!!", JObj1("<", JArr(<<JVar("a"), JNum(1)>>)))}

Texts ==
  UNION {{JSONstringify(v),
          SubSeq(JSONstringify(v), 1, Len(JSONstringify(v)) - 1),
          Append(JSONstringify(v), Punct("}")),
          <<Punct("{")>> \o JSONstringify(v) \o <<Punct("}")>>} : v \in TextValues}

ParseInputs ==
  {[kind |-> "value", json |-> v] : v \in LogicOfDepth(MaxDepth) \cup NotPlainObjects}
  \cup {[kind |-> "text", toks |-> t] : t \in Texts}

\* What a caller's function for the key "custom" returns.
CustomResults ==
  {Rule("c", "in", JArr(<<JNum(1), JNum(2)>>), "none"),
   Group("or", FALSE, <<Rule("c", "=", JStr("x"), "none")>>),
   JBool(FALSE)}

\* The field list and the custom operations of a call: neither, a field
\* list, one custom operation, or a custom operation for the key "==".
FieldsAndOperations ==
  {[fields |-> {}, ops |-> {}], [fields |-> {"a", "b"}, ops |-> {}]}
  \cup {[fields |-> {}, ops |-> {[key |-> "custom", result |-> r]}] : r \in CustomResults}
  \cup {[fields |-> {},
         ops |-> {[key |-> "==", result |-> Rule("c", "in", JArr(<<JNum(1), JNum(2)>>), "none")]}]}

ParseOptions ==
  {[listsAsArrays |-> las, independentCombinators |-> ic, fields |-> fo.fields,
    PostgRESTOperations |-> fo.ops] :
   las \in BOOLEAN, ic \in BOOLEAN, fo \in FieldsAndOperations}

InitParse ==
  /\ rqbPostgREST \in ParseInputs
  /\ parseOptions = None
  /\ parseResult = None
  /\ ruleGroup = None
  /\ options = None
  /\ script = NoScript
  /\ fqResult = None
  /\ issued = <<>>
  /\ calls = None
  /\ effective = None
  /\ converted = None
  /\ heap = None

ParsePostgREST ==
  /\ parseOptions = None
  /\ \E opt \in ParseOptions :
       /\ parseOptions' = opt
       /\ parseResult' \in parsePostgREST(rqbPostgREST, opt)
  /\ UNCHANGED rqbPostgREST
  /\ UNCHANGED formatVars
  /\ UNCHANGED calls
  /\ UNCHANGED effective
  /\ UNCHANGED converted
  /\ UNCHANGED heap

NextParse == ParsePostgREST

SpecParse == InitParse /\ [][NextParse]_vars

\* ----------------------------------- formatQuery 'postgrest', then parse

\* One rule per default operator, each with a literal value of the kind
\* the operator takes: a string, a number, a list, null for the null tests.
DefaultOperators ==
  {"=", "!=", "<", "<=", ">", ">=", "null", "notNull", "in", "notIn",
   "between", "notBetween", "contains", "doesNotContain",
   "beginsWith", "doesNotBeginWith", "endsWith", "doesNotEndWith"}

LiteralFor(op) ==
  IF op \in {"null", "notNull"} THEN JNull
  ELSE IF op \in {"in", "notIn"} THEN JArr(<<JNum(1), JNum(2)>>)
  ELSE IF op \in {"between", "notBetween"} THEN JArr(<<JNum(1), JNum(3)>>)
  ELSE IF op \in {"<", "<=", ">", ">="} THEN JNum(2)
  ELSE JStr("x")

RoundTripRules == {Rule("a", op, LiteralFor(op), "none") : op \in DefaultOperators}

RECURSIVE NoEmptyGroup(_)
NoEmptyGroup(rg) ==
  /\ rg.rules # <<>>
  /\ \A i \in DOMAIN rg.rules : isRuleGroup(rg.rules[i]) => NoEmptyGroup(rg.rules[i])

RoundTripTrees == {t \in TreesOver(RoundTripRules, MaxNodes) : NoEmptyGroup(t)}

PostgRESTOptions ==
  [format |-> "postgrest", fallbackExpression |-> "",
   placeholderFieldName |-> defaultPlaceholderFieldName,
   placeholderOperatorName |-> defaultPlaceholderOperatorName,
   parseNumbers |-> FALSE, validation |-> [bool |-> TRUE],
   fieldValidators |-> {}, rejectedFields |-> {}]

ListsAsArraysOptions ==
  {[listsAsArrays |-> TRUE, independentCombinators |-> FALSE, fields |-> fs,
    PostgRESTOperations |-> {}] : fs \in {{}, {"a"}}}

InitRoundTrip ==
  /\ ruleGroup \in RoundTripTrees
  /\ options = None
  /\ script = NoScript
  /\ fqResult = None
  /\ issued = <<>>
  /\ rqbPostgREST = None
  /\ parseOptions = None
  /\ parseResult = None
  /\ calls = None
  /\ effective = None
  /\ converted = None
  /\ heap = None

FormatPostgREST ==
  /\ options = None
  /\ options' = PostgRESTOptions
  /\ fqResult' = formatQuery(ruleGroup, PostgRESTOptions, script)
  /\ issued' = IssuedNames(ruleGroup, PostgRESTOptions, script)
  /\ UNCHANGED <<ruleGroup, script>>
  /\ UNCHANGED parseVars
  /\ UNCHANGED calls
  /\ UNCHANGED effective
  /\ UNCHANGED converted
  /\ UNCHANGED heap

\* The object formatQuery returned is handed to parsePostgREST.
ParseFormatted ==
  /\ options # None
  /\ parseOptions = None
  /\ rqbPostgREST' = [kind |-> "value", json |-> fqResult]
  /\ \E opt \in ListsAsArraysOptions :
       /\ parseOptions' = opt
       /\ parseResult' \in parsePostgREST([kind |-> "value", json |-> fqResult], opt)
  /\ UNCHANGED formatVars
  /\ UNCHANGED calls
  /\ UNCHANGED effective
  /\ UNCHANGED converted
  /\ UNCHANGED heap

NextRoundTrip == FormatPostgREST \/ ParseFormatted

SpecRoundTrip == InitRoundTrip /\ [][NextRoundTrip]_vars

\* -------------------- formatQuery calls side by side (parameterized formats)

\* Number of formatQuery calls in progress at the same time.
MaxCalls == 2

CallIds == 1..MaxCalls

\* The trees, options and rule processors of the calls.
CallTrees ==
  {Group("and", FALSE, <<Rule("a", "=", JStr("1"), "value")>>),
   Group("and", FALSE, <<Rule("a", "=", JStr("1"), "value"),
                         Group("or", TRUE, <<Rule("a", "<", JStr("2"), "value")>>)>>),
   Group("or", FALSE, <<Rule("b", "<", JStr("2"), "value"),
                        Rule("a", "=", JStr("3"), "value")>>)}

CallOptions ==
  {[format |-> f, fallbackExpression |-> "",
    placeholderFieldName |-> defaultPlaceholderFieldName,
    placeholderOperatorName |-> defaultPlaceholderOperatorName,
    parseNumbers |-> FALSE, validation |-> v,
    fieldValidators |-> {}, rejectedFields |-> {}] :
   f \in {"parameterized", "parameterized_named"}, v \in {[bool |-> TRUE]}}

\* The rule processors of a call: the default for every rule, or a
\* processor that asks for a name and invents another for the first rule.
CallScripts(rg) ==
  {NoScript,
   [p \in {<<1>>} |->
      [calls |-> 1, invent |-> <<"_3">>, pojo |-> TRUE, sql |-> TRUE, params |-> TRUE]]}

\* The rules processRuleGroup hands to processRule, by path, in the order
\* of the walk: the rules of the groups that are valid.
RECURSIVE VisitOrder(_, _, _)
VisitOrder(rg, path, o) ==
  IF ~GroupIsValid(rg, path, o) THEN <<>>
  ELSE Flatten([i \in DOMAIN rg.rules |->
         LET rule == rg.rules[i]
         IN IF isCombinatorToken(rule) THEN <<>>
            ELSE IF isRuleGroup(rule) THEN VisitOrder(rule, Append(path, i), o)
            ELSE <<Append(path, i)>>])

RECURSIVE NodeAt(_, _)
NodeAt(rg, path) ==
  IF path = <<>> THEN rg ELSE NodeAt(rg.rules[Head(path)], Tail(path))

\* processRuleGroup, given what processRule returned for each rule.
RECURSIVE JoinProcessed(_, _, _, _, _)
JoinProcessed(rg, path, outermostOrLonelyInGroup, o, sqls) ==
  IF ~GroupIsValid(rg, path, o)
  THEN (IF outermostOrLonelyInGroup THEN <<EffectiveFallback(o)>> ELSE <<>>)
  ELSE
    LET processedRules ==
          [i \in DOMAIN rg.rules |->
             LET rule == rg.rules[i]
             IN IF isCombinatorToken(rule) THEN <<rule.comb>>
                ELSE IF isRuleGroup(rule)
                  THEN JoinProcessed(rule, Append(path, i), Len(rg.rules) = 1, o, sqls)
                ELSE sqls[Append(path, i)]]
    IN JoinSQLGroup(rg, processedRules, o)

\* The accumulators a call's processRule reads and writes: those declared
\* in the body of that call.
CallAccumulators_Shared(running, c) ==
  LET others == {d \in DOMAIN running : d # c /\ running[d].state = "running"}
  IN IF others = {} THEN running[c].acc ELSE running[CHOOSE d \in others : TRUE].acc

CallAccumulators(running, c) == running[c].acc

Idle == [state |-> "idle"]

InitCalls ==
  /\ calls = [c \in CallIds |-> Idle]
  /\ ruleGroup = None
  /\ options = None
  /\ script = NoScript
  /\ fqResult = None
  /\ issued = <<>>
  /\ rqbPostgREST = None
  /\ parseOptions = None
  /\ parseResult = None
  /\ effective = None
  /\ converted = None
  /\ heap = None

\* A call enters the parameterized region and declares its accumulators.
BeginCall(c) ==
  /\ calls[c].state = "idle"
  /\ \E t \in CallTrees, o \in CallOptions : \E s \in CallScripts(t) :
       calls' = [calls EXCEPT
                   ![c] = [state |-> "running", ruleGroup |-> t, options |-> o,
                                script |-> s, acc |-> FreshAccumulators,
                                todo |-> VisitOrder(t, <<>>, o),
                                sqls |-> [p \in {} |-> <<>>]]]
  /\ UNCHANGED formatVars
  /\ UNCHANGED parseVars
  /\ UNCHANGED effective
  /\ UNCHANGED converted
  /\ UNCHANGED heap

\* A call processes the next rule of its walk.
ProcessRuleStep(c) ==
  /\ calls[c].state = "running"
  /\ calls[c].todo # <<>>
  /\ LET me == calls[c]
         path == Head(me.todo)
         r == processRule(NodeAt(me.ruleGroup, path), path,
                          CallAccumulators(calls, c), me.options,
                          BehaviourAt(me.script, path))
     IN calls' = [calls EXCEPT
                    ![c] = [me EXCEPT !.acc = r.acc,
                                      !.todo = Tail(@),
                                      !.sqls = (path :> r.sql) @@ @]]
  /\ UNCHANGED formatVars
  /\ UNCHANGED parseVars
  /\ UNCHANGED effective
  /\ UNCHANGED converted
  /\ UNCHANGED heap

\* A call returns its sql and its params.
ReturnCall(c) ==
  /\ calls[c].state = "running"
  /\ calls[c].todo = <<>>
  /\ LET me == calls[c]
         sql == JoinProcessed(me.ruleGroup, <<>>, TRUE, me.options, me.sqls)
     IN calls' = [calls EXCEPT
                    ![c] =
                      [state |-> "done", ruleGroup |-> me.ruleGroup,
                       options |-> me.options, script |-> me.script,
                       result |->
                         IF me.options.format = "parameterized"
                         THEN [t |-> "parameterized", sql |-> sql,
                               params |-> me.acc.params]
                         ELSE [t |-> "parameterized_named", sql |-> sql,
                               params |-> me.acc.paramsNamed]]]
  /\ UNCHANGED formatVars
  /\ UNCHANGED parseVars
  /\ UNCHANGED effective
  /\ UNCHANGED converted
  /\ UNCHANGED heap

NextCalls == \E c \in CallIds : BeginCall(c) \/ ProcessRuleStep(c) \/ ReturnCall(c)

SpecCalls == InitCalls /\ [][NextCalls]_vars

\* ------------------------------------------- formatQuery: presets, options

\* An options object is a function from the names of the options it holds
\* to their values; JUndef is a property that is there and undefined.
PresetOptionNames ==
  {"concatOperator", "quoteFieldNamesWith", "fieldIdentifierSeparator",
   "numberedParams", "paramPrefix", "paramsKeepPrefix"}

NoOptions == [k \in {} |-> JUndef]

sqlDialectPresets(preset) ==
  CASE preset = "ansi" -> NoOptions
    [] preset = "sqlite" -> [k \in {"paramsKeepPrefix"} |-> JBool(TRUE)]
    [] preset = "oracle" -> NoOptions
    [] preset = "mssql" ->
         [k \in {"concatOperator", "quoteFieldNamesWith", "fieldIdentifierSeparator"} |->
            IF k = "concatOperator" THEN JStr("+")
            ELSE IF k = "quoteFieldNamesWith" THEN JArr(<<JStr("["), JStr("]")>>)
            ELSE JStr(".")]
    [] preset = "mysql" -> [k \in {"concatOperator"} |-> JStr("CONCAT")]
    [] preset = "postgresql" ->
         [k \in {"quoteFieldNamesWith", "numberedParams", "paramPrefix"} |->
            IF k = "quoteFieldNamesWith" THEN JStr("\"")
            ELSE IF k = "numberedParams" THEN JBool(TRUE)
            ELSE JStr("$")]
    [] OTHER -> NoOptions

\* { ...a, ...b }: the properties of b, then those of a that b lacks.
Spread_Reversed(a, b) ==
  [k \in DOMAIN a \cup DOMAIN b |-> IF k \in DOMAIN a THEN a[k] ELSE b[k]]

Spread(a, b) ==
  [k \in DOMAIN a \cup DOMAIN b |-> IF k \in DOMAIN b THEN b[k] ELSE a[k]]

\* o.k: undefined when the object has no such property.
Prop(o, k) == IF k \in DOMAIN o THEN o[k] ELSE JUndef

\* a ?? b
Nullish(a, b) == IF a = JUndef \/ a = JNull THEN b ELSE a

\* !!a, for the values the model gives the boolean options.
Truthy(a) == JBool(a = JBool(TRUE) \/ (a.t = "str" /\ a.s # ""))

getQuoteFieldNamesWithArray(q) ==
  IF q.t = "arr" THEN q
  ELSE IF q.t = "str" THEN JArr(<<q, q>>)
  ELSE JArr(<<JStr(""), JStr("")>>)

optionsWithPresets(o) ==
  Spread(sqlDialectPresets(Nullish(Prop(o, "preset"), JStr("ansi")).s), o)

\* The local variables of formatQuery the six options end up in.
ReadOptions(o) ==
  LET merged == optionsWithPresets(o)
  IN [quoteFieldNamesWith |->
        getQuoteFieldNamesWithArray(Prop(merged, "quoteFieldNamesWith")),
      fieldIdentifierSeparator |->
        Nullish(Prop(merged, "fieldIdentifierSeparator"), JStr("")),
      paramPrefix |-> Nullish(Prop(merged, "paramPrefix"), JStr(":")),
      paramsKeepPrefix |-> Truthy(Prop(merged, "paramsKeepPrefix")),
      numberedParams |-> Truthy(Prop(merged, "numberedParams")),
      concatOperator |-> Nullish(Prop(merged, "concatOperator"), JStr("||"))]

Presets == {"ansi", "sqlite", "oracle", "mssql", "mysql", "postgresql"}

\* The values a caller gives an option: one no preset holds, and undefined;
\* for preset, the name of a preset, or a name formatQuery does not know.
CallerValues(k) ==
  IF k = "preset" THEN {JStr(p) : p \in Presets \cup {"other"}}
  ELSE IF k \in {"numberedParams", "paramsKeepPrefix"}
    THEN {JBool(TRUE), JBool(FALSE), JUndef}
  ELSE IF k = "quoteFieldNamesWith" THEN {JStr("'"), JUndef}
  ELSE {JStr("caller"), JUndef}

Absent == [t |-> "absent"]

Choices(k) == CallerValues(k) \cup {Absent}

\* The options objects of the callers: each of the six options and the
\* preset is given a value or left out.
CallerOptions ==
  {LET given == [k \in PresetOptionNames \cup {"preset"} |->
                   CASE k = "concatOperator" -> c
                     [] k = "quoteFieldNamesWith" -> q
                     [] k = "fieldIdentifierSeparator" -> f
                     [] k = "numberedParams" -> n
                     [] k = "paramPrefix" -> pp
                     [] k = "paramsKeepPrefix" -> pk
                     [] k = "preset" -> pr]
   IN [k \in {x \in DOMAIN given : given[x] # Absent} |-> given[k]] :
   c \in Choices("concatOperator"), q \in Choices("quoteFieldNamesWith"),
   f \in Choices("fieldIdentifierSeparator"), n \in Choices("numberedParams"),
   pp \in Choices("paramPrefix"), pk \in Choices("paramsKeepPrefix"),
   pr \in Choices("preset")}

InitPresets ==
  /\ options \in CallerOptions
  /\ effective = None
  /\ converted = None
  /\ heap = None
  /\ ruleGroup = None
  /\ script = NoScript
  /\ fqResult = None
  /\ issued = <<>>
  /\ rqbPostgREST = None
  /\ parseOptions = None
  /\ parseResult = None
  /\ calls = None

MergeOptions ==
  /\ effective = None
  /\ effective' = ReadOptions(options)
  /\ UNCHANGED <<ruleGroup, options, script, fqResult, issued, calls>>
  /\ UNCHANGED parseVars
  /\ UNCHANGED converted
  /\ UNCHANGED heap

NextPresets == MergeOptions

SpecPresets == InitPresets /\ [][NextPresets]_vars

\* -------------------------------- formatQuery and the caller's tree

\* Rules with a numeric string and with a string that is not numeric.
FrameRules ==
  {Rule("a", "=", JStr("1"), "value"), Rule("b", "<", JStr("x"), "value")}

ICGroup(n, rs) == [not |-> n, rules |-> rs]
Token(c) == [comb |-> c]

\* Groups with their combinators between their children.
ICTrees ==
  {ICGroup(n, <<r1, Token(c), r2>>) :
     n \in BOOLEAN, c \in {"and", "or"}, r1 \in FrameRules, r2 \in FrameRules}
  \cup {ICGroup(n, <<r1, Token(c), ICGroup(m, <<r2>>)>>) :
          n \in BOOLEAN, m \in BOOLEAN, c \in {"and", "or"},
          r1 \in FrameRules, r2 \in FrameRules}

FrameTrees == TreesOver(FrameRules, MaxNodes) \cup ICTrees

FrameOptions ==
  {[format |-> f, fallbackExpression |-> "",
    placeholderFieldName |-> defaultPlaceholderFieldName,
    placeholderOperatorName |-> defaultPlaceholderOperatorName,
    parseNumbers |-> pn, validation |-> [bool |-> TRUE],
    fieldValidators |-> {}, rejectedFields |-> {}] :
   f \in Formats, pn \in BOOLEAN}

InitFrame ==
  /\ ruleGroup \in FrameTrees
  /\ options = None
  /\ script = NoScript
  /\ fqResult = None
  /\ issued = <<>>
  /\ rqbPostgREST = None
  /\ parseOptions = None
  /\ parseResult = None
  /\ calls = None
  /\ effective = None
  /\ converted = None
  /\ heap = None

\* formatQuery returns; ruleGroup is the caller's tree as the call left it.
FormatAnyTree ==
  /\ options = None
  /\ \E o \in FrameOptions :
       /\ options' = o
       /\ fqResult' = formatQuery(ruleGroup, o, script)
       /\ issued' = IssuedNames(ruleGroup, o, script)
       /\ ruleGroup' = TreeAfterFormatQuery(ruleGroup, o)
  /\ UNCHANGED <<script, calls, effective>>
  /\ UNCHANGED parseVars
  /\ UNCHANGED converted
  /\ UNCHANGED heap

NextFrame == FormatAnyTree

SpecFrame == InitFrame /\ [][NextFrame]_vars

\* ------------------------------------------- state: validated formatting

\* formatQuery under a validator that returns a validation map, with and
\* without validators attached to the fields.
ValidationRules ==
  {Rule("a", "=", JStr("1"), "value"), Rule("b", "<", JStr("2"), "value")}

ValidationTrees == TreesOver(ValidationRules, MaxNodes)

\* The validator's map, the fields that carry a validator, and those
\* whose validator answers false.
Validators ==
  {[validation |-> [valid |-> v, invalid |-> i], fieldValidators |-> fv,
    rejectedFields |-> rj] :
   v \in {{}}, i \in {{}, {<<>>}, {<<1>>}, {<<2>>}}, fv \in {{}}, rj \in {{}}}
  \cup
  {[validation |-> [valid |-> v, invalid |-> {}], fieldValidators |-> {"a"},
    rejectedFields |-> rj] :
   v \in {{}, {<<1>>}}, rj \in {{}, {"a"}}}
  \cup
  {[validation |-> [valid |-> {<<1>>}, invalid |-> {<<2>>}],
    fieldValidators |-> {}, rejectedFields |-> {}]}

ValidationOptions ==
  {[format |-> f, fallbackExpression |-> "", placeholderFieldName |-> pf,
    placeholderOperatorName |-> defaultPlaceholderOperatorName,
    parseNumbers |-> FALSE, validation |-> v.validation,
    fieldValidators |-> v.fieldValidators, rejectedFields |-> v.rejectedFields] :
   f \in Formats \ {"json", "json_without_ids"},
   pf \in {defaultPlaceholderFieldName, "b"}, v \in Validators}

InitValidation ==
  /\ ruleGroup \in ValidationTrees
  /\ options = None
  /\ script = NoScript
  /\ fqResult = None
  /\ issued = <<>>
  /\ rqbPostgREST = None
  /\ parseOptions = None
  /\ parseResult = None
  /\ calls = None
  /\ effective = None
  /\ converted = None
  /\ heap = None

FormatValidated ==
  /\ options = None
  /\ \E o \in ValidationOptions :
       /\ options' = o
       /\ fqResult' = formatQuery(ruleGroup, o, script)
       /\ issued' = IssuedNames(ruleGroup, o, script)
  /\ UNCHANGED <<ruleGroup, script>>
  /\ UNCHANGED parseVars
  /\ UNCHANGED calls
  /\ UNCHANGED effective
  /\ UNCHANGED converted
  /\ UNCHANGED heap

NextValidation == FormatValidated

SpecValidation == InitValidation /\ [][NextValidation]_vars

\* ------------------------------------- state: parsing the ternary shapes

\* parsePostgREST on the chained comparisons { "<": [lo, x, hi] } and
\* { "<=": [lo, x, hi] }, bare, negated, and as the element of an "and".
\* The bounds are literals of each type and field references, one of them
\* with a name of two characters.
TernaryBounds ==
  {JNum(1), JNum(3), JStr("x"), JStr("y"), JBool(TRUE), JNull,
   JVar("a"), JVar("bb"), JVar("c")}

TernaryMiddles == {JVar("a"), JVar("c"), JNum(2)}

TernaryShapes ==
  {JObj1(k, JArr(<<lo, mid, hi>>)) :
     k \in {"<", "<="}, lo \in TernaryBounds, mid \in TernaryMiddles,
     hi \in TernaryBounds}

TernaryInputs ==
  {[kind |-> "value", json |-> v] :
     v \in TernaryShapes
           \cup {JObj1("!", x) : x \in TernaryShapes}
           \cup {JObj1("and", JArr(<<x>>)) : x \in TernaryShapes}}

TernaryOptions ==
  {[listsAsArrays |-> las, independentCombinators |-> ic, fields |-> fs,
    PostgRESTOperations |-> {}] :
   las \in BOOLEAN, ic \in BOOLEAN, fs \in {{}, {"a", "bb"}}}

InitTernary ==
  /\ rqbPostgREST \in TernaryInputs
  /\ parseOptions = None
  /\ parseResult = None
  /\ ruleGroup = None
  /\ options = None
  /\ script = NoScript
  /\ fqResult = None
  /\ issued = <<>>
  /\ calls = None
  /\ effective = None
  /\ converted = None
  /\ heap = None

ParseTernary ==
  /\ parseOptions = None
  /\ \E opt \in TernaryOptions :
       /\ parseOptions' = opt
       /\ parseResult' \in parsePostgREST(rqbPostgREST, opt)
  /\ UNCHANGED rqbPostgREST
  /\ UNCHANGED formatVars
  /\ UNCHANGED calls
  /\ UNCHANGED effective
  /\ UNCHANGED converted
  /\ UNCHANGED heap

NextTernary == ParseTernary

SpecTernary == InitTernary /\ [][NextTernary]_vars

\* ------------------------------------------ state: converting the variants

\* A standard tree is converted to the independent-combinator variant,
\* and the result is converted back.
ConvertRules == {Rule("a", "=", JStr("1"), "value"), Rule("b", "<", JStr("2"), "value")}

ConvertTrees == TreesOver(ConvertRules, MaxNodes)

InitConvert ==
  /\ ruleGroup \in ConvertTrees
  /\ converted = None
  /\ options = None
  /\ script = NoScript
  /\ fqResult = None
  /\ issued = <<>>
  /\ rqbPostgREST = None
  /\ parseOptions = None
  /\ parseResult = None
  /\ calls = None
  /\ effective = None
  /\ heap = None

ToIC ==
  /\ converted = None
  /\ converted' = [ic |-> convertToIC(ruleGroup), standard |-> None]
  /\ UNCHANGED formatVars
  /\ UNCHANGED parseVars
  /\ UNCHANGED <<calls, effective, heap>>

ToStandard ==
  /\ converted # None
  /\ converted.standard = None
  /\ converted' = [converted EXCEPT !.standard = convertFromIC(converted.ic)]
  /\ UNCHANGED formatVars
  /\ UNCHANGED parseVars
  /\ UNCHANGED <<calls, effective, heap>>

NextConvert == ToIC \/ ToStandard

SpecConvert == InitConvert /\ [][NextConvert]_vars

\* ------------------------- state: formatting independent-combinator trees

\* formatQuery on groups whose children stand between combinator tokens:
\* rules, a placeholder rule, and a nested group, with and without a
\* validation map that records a child invalid.
ICOperands ==
  {Rule("a", "=", JStr("1"), "value"),
   Rule("b", "<", JStr("2"), "value"),
   Rule(defaultPlaceholderFieldName, "=", JStr("3"), "value"),
   ICGroup(FALSE, <<Rule("b", "<", JStr("2"), "value")>>)}

ICShapes ==
  {ICGroup(n, <<x1, Token(c1), x2>>) :
     n \in BOOLEAN, c1 \in {"and", "or"}, x1 \in ICOperands, x2 \in ICOperands}
  \cup {ICGroup(n, <<x1, Token(c1), x2, Token(c2), x3>>) :
          n \in BOOLEAN, c1 \in {"and", "or"}, c2 \in {"and", "or"},
          x1 \in ICOperands, x2 \in ICOperands, x3 \in ICOperands}

ICOptions ==
  {[format |-> f, fallbackExpression |-> "",
    placeholderFieldName |-> defaultPlaceholderFieldName,
    placeholderOperatorName |-> defaultPlaceholderOperatorName,
    parseNumbers |-> FALSE, validation |-> v,
    fieldValidators |-> {}, rejectedFields |-> {}] :
   f \in {"sql", "parameterized", "parameterized_named", "natural_language"},
   v \in {[bool |-> TRUE], [valid |-> {}, invalid |-> {<<1>>}],
          [valid |-> {}, invalid |-> {<<3>>}]}}

InitIC ==
  /\ ruleGroup \in ICShapes
  /\ options = None
  /\ script = NoScript
  /\ fqResult = None
  /\ issued = <<>>
  /\ rqbPostgREST = None
  /\ parseOptions = None
  /\ parseResult = None
  /\ calls = None
  /\ effective = None
  /\ converted = None
  /\ heap = None

FormatIC ==
  /\ options = None
  /\ \E o \in ICOptions :
       /\ options' = o
       /\ fqResult' = formatQuery(ruleGroup, o, script)
       /\ issued' = IssuedNames(ruleGroup, o, script)
  /\ UNCHANGED <<ruleGroup, script>>
  /\ UNCHANGED parseVars
  /\ UNCHANGED calls
  /\ UNCHANGED effective
  /\ UNCHANGED converted
  /\ UNCHANGED heap

NextIC == FormatIC

SpecIC == InitIC /\ [][NextIC]_vars

\* ------------------------------- state: formatting between rules, postgrest

\* formatQuery 'postgrest' on a group that holds a between or notBetween
\* rule, alone or beside another rule.  The rule's value is a list of
\* numbers, numeric strings, other strings and empty strings, of any
\* length up to three, or a single value.
BetweenItems ==
  {JNum(n) : n \in 0..MaxNumber} \cup {JStr("2"), JStr("x"), JStr("")}

BetweenValues ==
  {JArr(<<x, y>>) : x \in BetweenItems, y \in BetweenItems}
  \cup {JArr(<<JNum(3), JNum(1), JNum(2)>>), JArr(<<JNum(1)>>), JArr(<<>>),
        JNum(1), JStr("x"), JStr("")}

BetweenRules ==
  {Rule("a", op, v, "value") : op \in {"between", "notBetween"}, v \in BetweenValues}

BetweenSibling == Rule("b", "=", JStr("x"), "value")

BetweenTrees ==
  {Group("and", FALSE, rs) :
     rs \in {<<r>> : r \in BetweenRules}
            \cup {<<r, BetweenSibling>> : r \in BetweenRules}
            \cup {<<BetweenSibling, r>> : r \in BetweenRules}}

BetweenOptions ==
  {[format |-> "postgrest", fallbackExpression |-> "",
    placeholderFieldName |-> defaultPlaceholderFieldName,
    placeholderOperatorName |-> defaultPlaceholderOperatorName,
    parseNumbers |-> pn, validation |-> [bool |-> TRUE],
    fieldValidators |-> {}, rejectedFields |-> {}] : pn \in BOOLEAN}

InitBetween ==
  /\ ruleGroup \in BetweenTrees
  /\ options = None
  /\ script = NoScript
  /\ fqResult = None
  /\ issued = <<>>
  /\ rqbPostgREST = None
  /\ parseOptions = None
  /\ parseResult = None
  /\ calls = None
  /\ effective = None
  /\ converted = None
  /\ heap = None

FormatBetween ==
  /\ options = None
  /\ \E o \in BetweenOptions :
       /\ options' = o
       /\ fqResult' = formatQuery(ruleGroup, o, script)
       /\ issued' = IssuedNames(ruleGroup, o, script)
  /\ UNCHANGED <<ruleGroup, script>>
  /\ UNCHANGED parseVars
  /\ UNCHANGED calls
  /\ UNCHANGED effective
  /\ UNCHANGED converted
  /\ UNCHANGED heap

NextBetween == FormatBetween

SpecBetween == InitBetween /\ [][NextBetween]_vars

\* --------------------------------- state: calls of parsePostgREST in a row

\* The module is loaded once; callers call parsePostgREST again and again
\* and may change the groups they were returned.  heap.emptyRuleGroup is
\* the object the constant refers to, heap.callerHolds tells whether some
\* call returned that object, heap.latestIsShared whether the latest did.
MaxAppended == 2

AppendedRules ==
  {Rule("a", "=", JNum(1), "none"), Rule("b", "<", JNum(2), "none"),
   Rule("a", "null", JNull, "none")}

SharedInputs ==
  {[kind |-> "text", toks |-> <<Punct("{")>>],
   [kind |-> "value", json |-> JObj1("unknown", JNum(1))],
   [kind |-> "value", json |-> JNum(5)],
   [kind |-> "value", json |-> JArr(<<>>)],
   [kind |-> "value", json |-> JObj1("==", JArr(<<JVar("a"), JNum(1)>>))]}

SharedOptions ==
  {[listsAsArrays |-> FALSE, independentCombinators |-> ic, fields |-> {},
    PostgRESTOperations |-> {}] : ic \in BOOLEAN}

InitShared ==
  /\ heap = [emptyRuleGroup |-> emptyRuleGroup, callerHolds |-> FALSE,
             latestIsShared |-> FALSE]
  /\ rqbPostgREST = None
  /\ parseOptions = None
  /\ parseResult = None
  /\ ruleGroup = None
  /\ options = None
  /\ script = NoScript
  /\ fqResult = None
  /\ issued = <<>>
  /\ calls = None
  /\ effective = None
  /\ converted = None

ParseAgain ==
  /\ \E input \in SharedInputs, opt \in SharedOptions :
       /\ rqbPostgREST' = input
       /\ parseOptions' = opt
       /\ parseResult' \in parsePostgRESTFrom(heap.emptyRuleGroup, input, opt)
       /\ heap' = [heap EXCEPT
                     !.callerHolds = @ \/ ReturnsEmptyRuleGroup(input, opt),
                     !.latestIsShared = ReturnsEmptyRuleGroup(input, opt)]
  /\ UNCHANGED formatVars
  /\ UNCHANGED <<calls, effective, converted>>

\* A caller appends a rule to the rules list of a group it was returned.
MutateReturned ==
  /\ heap.callerHolds
  /\ Len(heap.emptyRuleGroup.rules) < MaxAppended
  /\ \E r \in AppendedRules :
       LET changed == [heap.emptyRuleGroup EXCEPT !.rules = Append(@, r)]
       IN /\ heap' = [heap EXCEPT !.emptyRuleGroup = changed]
          /\ parseResult' = IF heap.latestIsShared THEN changed ELSE parseResult
  /\ UNCHANGED <<rqbPostgREST, parseOptions>>
  /\ UNCHANGED formatVars
  /\ UNCHANGED <<calls, effective, converted>>

NextShared == ParseAgain \/ MutateReturned

SpecShared == InitShared /\ [][NextShared]_vars

\* ---------------------------------------------------------------- claims

JsonFormats == {"json", "json_without_ids"}

Called == fqResult # None

\* The caller's validator answered the boolean false for the root tree.
ValidatorReturnedFalse == options.validation = [bool |-> FALSE]

\* A rule that names the placeholder field or the placeholder operator of
\* the call's options.
PlaceholderRule(r) ==
  \/ r.field = options.placeholderFieldName
  \/ r.operator = options.placeholderOperatorName

\* Whether a JSON value holds v, at any depth.
RECURSIVE Mentions(_, _)
Mentions(j, v) ==
  \/ j = v
  \/ j.t = "arr" /\ \E i \in DOMAIN j.a : Mentions(j.a[i], v)
  \/ j.t = "obj" /\ \E i \in DOMAIN j.e : Mentions(j.e[i].v, v)

\* Whether anything of a rule is part of a result of formatQuery: the
\* fragment its rule processor writes, its field, or its value.
Appears(rule, out) ==
  IF out.t = "json" THEN rule \in RulesOf(out.query)
  ELSE IF out.t = "text" THEN RuleCore(rule) \in Range(out.toks)
  ELSE IF out.t = "parameterized"
    THEN RuleHead(rule) \in Range(out.sql) \/ rule.value \in Range(out.params)
  ELSE IF out.t = "parameterized_named"
    THEN RuleHead(rule) \in Range(out.sql) \/ rule.value \in {e.value : e \in out.params}
  ELSE \/ Mentions(out, JStr(RuleCore(rule)))
       \/ Mentions(out, JVar(rule.field))
       \/ Mentions(out, rule.value)

\* The value each format returns for a tree its validator rejects.
ExpectedFallbackValue(format, override) ==
  LET expr == IF override # "" THEN override
              ELSE IF format = "mongodb" THEN "\"$and\":[{\"$expr\":true}]"
              ELSE IF format = "cel" \/ format = "spel" THEN "1 == 1"
              ELSE IF format = "natural_language" THEN "1 is 1"
              ELSE "(1 = 1)"
  IN CASE format = "parameterized" ->
            [t |-> "parameterized", sql |-> <<expr>>, params |-> <<>>]
       [] format = "parameterized_named" ->
            [t |-> "parameterized_named", sql |-> <<expr>>, params |-> {}]
       [] format = "mongodb" -> [t |-> "text", toks |-> <<"{", expr, "}">>]
       [] format = "jsonlogic" -> JBool(FALSE)
       [] format = "elasticsearch" -> JObj(<<>>)
       [] OTHER -> [t |-> "text", toks |-> <<expr>>]

\* C1: in every non-JSON format, a tree whose validator answers false is
\* formatted as the format's fallback value, whatever the tree holds.
C1_FallbackLaw ==
  (Called /\ options.format \notin JsonFormats /\ ValidatorReturnedFalse)
    => fqResult = ExpectedFallbackValue(options.format, options.fallbackExpression)

C1_Witness ==
  /\ Called
  /\ options.format = "mongodb"
  /\ ValidatorReturnedFalse
  /\ \E r \in RulesOf(ruleGroup) : ~PlaceholderRule(r)
  /\ fqResult = Text(<<"{", "\"$and\":[{\"$expr\":true}]", "}">>)

C3_EmptyGroupIsFallback ==
  (/\ Called
   /\ options.format = "sql"
   /\ ~ValidatorReturnedFalse
   /\ options.validation \in {[bool |-> TRUE], [valid |-> {}, invalid |-> {<<1>>}]}
   /\ ruleGroup.rules = <<>>)
    => fqResult = [t |-> "text",
                   toks |-> <<IF options.fallbackExpression = "" THEN "(1 = 1)"
                              ELSE options.fallbackExpression>>]

C3_Witness ==
  /\ Called
  /\ options.format = "sql"
  /\ ~ValidatorReturnedFalse
  /\ ruleGroup = Group("or", TRUE, <<>>)
  /\ fqResult = Text(<<"(1 = 1)">>)

\* C9: in parameterized_named format, every name getNextNamedParam returns
\* is new: no earlier call in the same formatQuery call returned it, and
\* it is not among the names recorded for the field when it is returned
\* (the names of the params a rule processor returned among them).
C9_NamesAreFresh ==
  (Called /\ options.format = "parameterized_named") =>
    \A i \in DOMAIN issued :
      /\ \A j \in 1..(i - 1) : issued[j].name # issued[i].name
      /\ issued[i].name \notin issued[i].recorded

\* The rules of the tree that formatQuery renders, with their paths, in
\* left-to-right depth-first order: those of valid groups that are valid,
\* not placeholders, and whose processor returns an object with an sql.
RECURSIVE RenderedRules(_, _)
RenderedRules(rg, path) ==
  LET recordedInvalid(p) ==
        "invalid" \in DOMAIN options.validation /\ p \in options.validation.invalid
      beh(p) == IF p \in DOMAIN script THEN script[p] ELSE DefaultBehaviour
  IN IF recordedInvalid(path) THEN <<>>
     ELSE Flatten([i \in DOMAIN rg.rules |->
            LET x == rg.rules[i]
                p == Append(path, i)
            IN IF isRuleGroup(x) THEN RenderedRules(x, p)
               ELSE IF \/ PlaceholderRule(x) \/ recordedInvalid(p)
                       \/ ~beh(p).pojo \/ ~beh(p).sql
                 THEN <<>>
               ELSE <<[rule |-> x, beh |-> beh(p)]>>])

\* The params array a rule's processor returns in parameterized format.
ParamsReturnedFor(r) ==
  IF r.beh.params THEN [i \in 1..(r.beh.calls + Len(r.beh.invent)) |-> r.rule.value]
  ELSE <<>>

IsRuleHead(tok) == \E r \in ParamRules : tok = r.field \o " " \o r.operator

\* C10: in parameterized format the params list is the concatenation, in
\* left-to-right depth-first order, of the params of the rules that are
\* rendered, and the sql holds the fragments of those rules and of no
\* other, in that order.
C10_ParamsInVisitOrder ==
  (Called /\ options.format = "parameterized") =>
    LET rendered == IF ValidatorReturnedFalse THEN <<>> ELSE RenderedRules(ruleGroup, <<>>)
    IN /\ fqResult.params = Flatten([i \in DOMAIN rendered |-> ParamsReturnedFor(rendered[i])])
       /\ SelectSeq(fqResult.sql, IsRuleHead) =
            [i \in DOMAIN rendered |-> rendered[i].rule.field \o " " \o rendered[i].rule.operator]

C10_Witness ==
  /\ Called
  /\ options.format = "parameterized"
  /\ ruleGroup = Group("and", FALSE,
                    <<Group("or", TRUE, <<Rule("b", "<", JStr("2"), "value")>>),
                      Rule("a", "=", JStr("1"), "value")>>)
  /\ DOMAIN script = {<<1, 1>>}
  /\ script[<<1, 1>>].invent = <<"_3">>
  /\ fqResult.params = <<JStr("2"), JStr("2"), JStr("1")>>

\* A tree without ids, paths and value sources: the nesting, each group's
\* combinator and not flag, each rule's field, operator and value.
RECURSIVE Stripped(_)
Stripped(x) ==
  IF x = TypeError \/ x = JBool(FALSE) THEN x
  ELSE IF isRuleGroup(x)
    THEN [combinator |-> IF isRuleGroupType(x) THEN x.combinator ELSE "",
          not |-> x.not,
          rules |-> [i \in DOMAIN x.rules |-> Stripped(x.rules[i])]]
  ELSE [field |-> x.field, operator |-> x.operator, value |-> x.value]

RoundTripDone == options # None /\ parseOptions # None

\* C4: a tree of non-empty groups whose rules use the default operators
\* with literal values is formatted as postgrest and parsed back, with
\* listsAsArrays, to the same tree: same nesting, combinators and not
\* flags, and every rule with its field, operator and value.
C4_RoundTrip ==
  RoundTripDone => Stripped(parseResult) = Stripped(ruleGroup)

\* The round trip of a tree that uses none of the negated operators.
C4_Witness ==
  /\ RoundTripDone
  /\ ruleGroup = Group("or", TRUE, <<Rule("a", "between", JArr(<<JNum(1), JNum(3)>>), "none"),
                                     Rule("a", "contains", JStr("x"), "none")>>)
  /\ Stripped(parseResult) = Stripped(ruleGroup)

ParseDone == parseResult # None

\* The logic object given to parsePostgREST, when it was given as a value.
GivenLogic == IF rqbPostgREST.kind = "value" THEN rqbPostgREST.json ELSE JUndef

IsOneKey(logic, k) == logic.t = "obj" /\ Len(logic.e) = 1 /\ logic.e[1].k = k

\* What a logic object below the top level reconstructs to under the
\* options of the call.
ReconstructsTo(logic) == processLogic(logic, FALSE, parseOptions)

IsBareRule(r) == r # JBool(FALSE) /\ r # TypeError /\ ~isRuleGroup(r)

NegatedCounterpart(op) ==
  CASE op = "between" -> "notBetween"
    [] op = "in" -> "notIn"
    [] op = "contains" -> "doesNotContain"
    [] op = "beginsWith" -> "doesNotBeginWith"
    [] op = "endsWith" -> "doesNotEndWith"

\* The group parsePostgREST returns around the given children, in the
\* variant the call asks for.
ReturnedGroup(combinator, children) ==
  IF parseOptions.independentCombinators THEN [not |-> FALSE, rules |-> children]
  ELSE [combinator |-> combinator, not |-> FALSE, rules |-> children]

Absorbed(r) ==
  [field |-> r.field, operator |-> NegatedCounterpart(r.operator),
   value |-> r.value, valueSource |-> r.valueSource]

\* The logic object is {"and": [{"!": X}]} for some X.
IsAndOfOneNegation(logic) ==
  /\ IsOneKey(logic, "and")
  /\ logic.e[1].v.t = "arr"
  /\ Len(logic.e[1].v.a) = 1
  /\ IsOneKey(logic.e[1].v.a[1], "!")

IsNegatableRule(r) ==
  /\ IsBareRule(r)
  /\ r.operator \in {"between", "in", "contains", "beginsWith", "endsWith"}

\* C5: parsing {"!": X}, X a rule with operator between, in, contains,
\* beginsWith or endsWith, yields that rule with the negated operator and
\* the same field, value and valueSource, in a group without a not flag;
\* the same holds for {"!": X} as the only child of an "and".
C5_NegationAbsorption ==
  ParseDone =>
    /\ (IsOneKey(GivenLogic, "!") /\ IsNegatableRule(ReconstructsTo(GivenLogic.e[1].v)))
         => parseResult =
              ReturnedGroup("and", <<Absorbed(ReconstructsTo(GivenLogic.e[1].v))>>)
    /\ (/\ IsAndOfOneNegation(GivenLogic)
        /\ IsNegatableRule(ReconstructsTo(GivenLogic.e[1].v.a[1].e[1].v)))
         => parseResult =
              ReturnedGroup("and",
                <<Absorbed(ReconstructsTo(GivenLogic.e[1].v.a[1].e[1].v))>>)

C5_Witness ==
  /\ ParseDone
  /\ GivenLogic = JObj1("!", JObj1("in", JArr(<<JVar("a"), JArr(<<JNum(1), JNum(2)>>)>>)))
  /\ parseOptions.listsAsArrays
  /\ parseResult =
       Group("and", FALSE, <<Rule("a", "notIn", JArr(<<JNum(1), JNum(2)>>), "none")>>)

\* C6: parsePostgREST never raises, whatever it is given (stated for the
\* calls that do not ask for independent combinators, whose outcome
\* processLogic alone decides).
C6_NeverRaises ==
  (ParseDone /\ ~parseOptions.independentCombinators) => parseResult # TypeError

\* The input is a text that is not JSON, or its top-level value is not a
\* plain object, or its top-level object reconstructs to nothing.
IsMalformedText == rqbPostgREST.kind = "text" /\ JSONparse(rqbPostgREST.toks) = SyntaxError

TopLevelValue ==
  IF rqbPostgREST.kind = "text" THEN JSONparse(rqbPostgREST.toks) ELSE rqbPostgREST.json

ReconstructsToNothing ==
  \/ IsMalformedText
  \/ TopLevelValue.t # "obj"
  \/ processLogic(TopLevelValue, TRUE, parseOptions) = JBool(FALSE)

\* C7: an input that is not JSON, or not a plain object, or that
\* reconstructs to nothing, is parsed as the empty 'and' group, in the
\* independent-combinator variant when the call asks for it.
C7_EmptyGroupForUnparseable ==
  (ParseDone /\ ReconstructsToNothing) => parseResult = ReturnedGroup("and", <<>>)

\* C8: parsePostgREST returns a group, never a bare rule.
C8_AlwaysAGroup ==
  (ParseDone /\ parseResult # TypeError) => isRuleGroup(parseResult)

\* The call has declared its accumulators and has processed no rule yet.
JustBegun(c) ==
  /\ calls[c].state = "running"
  /\ calls[c].todo = VisitOrder(calls[c].ruleGroup, <<>>, calls[c].options)

\* C11: a parameterized or parameterized_named call starts with empty
\* accumulators of its own, and returns what the same call returns when it
\* runs alone, whatever other calls ran before it or took their
\* rule-processing steps in between its own.
C11_CallsAreIndependent ==
  \A c \in CallIds :
    /\ JustBegun(c)
         => /\ calls[c].acc.params = <<>>
            /\ calls[c].acc.paramsNamed = {}
            /\ calls[c].acc.fieldParams = {}
    /\ calls[c].state = "done"
         => calls[c].result =
              formatQuery(calls[c].ruleGroup, calls[c].options, calls[c].script)

\* Two calls in progress at once, each half way through its rules on the
\* same field, each holding the name and the value of its own rule only.
C11_Witness ==
  /\ \A c \in {1, 2} : /\ calls[c].state = "running"
                       /\ calls[c].options.format = "parameterized_named"
                       /\ calls[c].script = NoScript
                       /\ Len(calls[c].todo) = 1
  /\ calls[1].acc.paramsNamed = {[name |-> "a_1", value |-> JStr("1")]}
  /\ calls[2].acc.paramsNamed = {[name |-> "b_1", value |-> JStr("2")]}
  /\ calls[2].todo = <<<<2>>>>

\* The value of an option when neither the caller nor the preset gives it.
BuiltInDefault(k) ==
  CASE k = "concatOperator" -> JStr("||")
    [] k = "quoteFieldNamesWith" -> JArr(<<JStr(""), JStr("")>>)
    [] k = "fieldIdentifierSeparator" -> JStr("")
    [] k = "numberedParams" -> JBool(FALSE)
    [] k = "paramPrefix" -> JStr(":")
    [] k = "paramsKeepPrefix" -> JBool(FALSE)

\* A given value as formatQuery holds it: one quote string stands for the
\* opening and the closing quote.
Shaped(k, v) ==
  IF k = "quoteFieldNamesWith" /\ v.t = "str" THEN JArr(<<v, v>>) ELSE v

\* The preset the caller's options name, 'ansi' when they name none.
PresetOf(o) ==
  IF "preset" \in DOMAIN o /\ o["preset"].s \in Presets THEN o["preset"].s ELSE "ansi"

RootRendersAChild ==
  /\ ~ValidatorReturnedFalse
  /\ ~("invalid" \in DOMAIN options.validation /\ <<>> \in options.validation.invalid)
  /\ \E i \in DOMAIN ruleGroup.rules :
       /\ ~isRuleGroup(ruleGroup.rules[i])
       /\ ~PlaceholderRule(ruleGroup.rules[i])
       /\ ~("invalid" \in DOMAIN options.validation
            /\ <<i>> \in options.validation.invalid)

\* C14: in every non-JSON format the result for a negated group that
\* renders a child differs from the result for the same group without the
\* not flag.
C14_NotFlagAlwaysShows ==
  (/\ Called
   /\ options.format \notin JsonFormats
   /\ ruleGroup.not
   /\ RootRendersAChild)
    => fqResult # formatQuery([ruleGroup EXCEPT !.not = FALSE], options, script)

NegatedOperators ==
  {"notIn", "notBetween", "doesNotContain", "doesNotBeginWith", "doesNotEndWith"}

PositiveCounterpart(op) ==
  CASE op = "notIn" -> "in"
    [] op = "notBetween" -> "between"
    [] op = "doesNotContain" -> "contains"
    [] op = "doesNotBeginWith" -> "beginsWith"
    [] op = "doesNotEndWith" -> "endsWith"

\* C15: in postgrest format a rule with a negated operator is rendered as
\* {"!": P}, P the object rendered for the rule with the positive
\* counterpart of the operator and the same field, value and valueSource.
C15_NegatedOperatorsUseBang ==
  (options # None /\ options.format = "postgrest") =>
    \A r \in RulesOf(ruleGroup) :
      r.operator \in NegatedOperators =>
        Mentions(fqResult,
                 JObj1("!", defaultRuleProcessorPostgREST(
                              [r EXCEPT !.operator = PositiveCounterpart(r.operator)],
                              options.parseNumbers)))

\* The rules of what parsePostgREST returned.
ReturnedRules ==
  IF parseResult = TypeError \/ parseResult = JBool(FALSE) THEN {}
  ELSE IF isRuleGroup(parseResult) THEN RulesOf(parseResult)
  ELSE {parseResult}

\* C16: with a field list, every rule of the result names a field that
\* passes the field-validity filter with the rule's operator.
C16_EveryRulePassedTheFilter ==
  (ParseDone /\ parseOptions.fields # {}) =>
    \A r \in ReturnedRules : fieldIsValid(parseOptions, r.field, r.operator, JUndef)

BuiltInKeys ==
  {"and", "or", "!", "!!", "==", "===", "!=", "!==", "<", "<=", ">", ">=",
   "in", "startsWith", "endsWith"}

\* The call's options without the map of custom operations.
WithoutOperations == [parseOptions EXCEPT !.PostgRESTOperations = {}]

\* The entries of the map of custom operations for a key.
EntriesFor(k) == {op \in parseOptions.PostgRESTOperations : op.key = k}

\* C17: a top-level object whose key is a built-in one is parsed as it is
\* without the map of custom operations, entry or no entry; an object with
\* another key is parsed as what the key's entry returns, and as the empty
\* group when the map has no entry for it.
C17_BuiltInsBeforeCustom ==
  (/\ ParseDone
   /\ ~parseOptions.independentCombinators
   /\ GivenLogic.t = "obj"
   /\ Len(GivenLogic.e) = 1)
    => LET k == GivenLogic.e[1].k
       IN IF k \in BuiltInKeys
          THEN parseResult \in parsePostgREST(rqbPostgREST, WithoutOperations)
          ELSE IF EntriesFor(k) = {} THEN parseResult = emptyRuleGroup
          ELSE \E op \in EntriesFor(k) :
                 parseResult = IF op.result = JBool(FALSE) THEN emptyRuleGroup
                               ELSE IF isRuleGroup(op.result) THEN op.result
                               ELSE Group("and", FALSE, <<op.result>>)

\* The formats whose result is a text built by joining the children.
StringDialects ==
  {"sql", "parameterized", "parameterized_named", "natural_language",
   "cel", "spel", "jsonata"}

\* The text of a result: the sql of the parameterized formats.
TextOf(out) == IF out.t = "text" THEN out.toks ELSE out.sql

RecordedInvalid(path) ==
  "invalid" \in DOMAIN options.validation /\ path \in options.validation.invalid

RootIsValid == ~ValidatorReturnedFalse /\ ~RecordedInvalid(<<>>)

\* The root has children, all of them rules that are filtered out.
AllChildrenFiltered ==
  /\ ruleGroup.rules # <<>>
  /\ \A i \in DOMAIN ruleGroup.rules :
       /\ ~isRuleGroup(ruleGroup.rules[i])
       /\ PlaceholderRule(ruleGroup.rules[i]) \/ RecordedInvalid(<<i>>)

TheFallbackExpression ==
  IF options.fallbackExpression # "" THEN options.fallbackExpression
  ELSE IF options.format \in {"cel", "spel"} THEN "1 == 1"
  ELSE IF options.format = "natural_language" THEN "1 is 1"
  ELSE "(1 = 1)"

\* C18: in the string dialects a valid group whose children are all
\* filtered out is not rendered as the fallback expression (in sql it is
\* the text "()", after NOT when negated), and a valid group without
\* children is rendered as the fallback expression.
C18_AllFilteredIsNotFallback ==
  (Called /\ options.format \in StringDialects /\ RootIsValid) =>
    /\ ruleGroup.rules = <<>> => TextOf(fqResult) = <<TheFallbackExpression>>
    /\ AllChildrenFiltered =>
         /\ TextOf(fqResult) # <<TheFallbackExpression>>
         /\ options.format = "sql" =>
              TextOf(fqResult) = (IF ruleGroup.not THEN <<"NOT ">> ELSE <<>>) \o <<"(", ")">>

\* What a valid root group writes around the joined fragments of its
\* children, in each string dialect.
AroundRoot(format, negated, inner) ==
  IF format \in {"sql", "parameterized", "parameterized_named"}
    THEN (IF negated THEN <<"NOT ">> ELSE <<>>) \o <<"(">> \o inner \o <<")">>
  ELSE IF format = "natural_language"
    THEN (IF negated THEN <<"(">> \o inner \o <<") is not true">> ELSE inner)
  ELSE IF negated THEN <<NotPrefix(format), "(">> \o inner \o <<")">>
  ELSE inner

\* A rule every call of the validated specification drops.
DroppedRule == Rule("b", defaultPlaceholderOperatorName, JStr("3"), "value")

FirstChildIsInvalidGroup ==
  /\ ~RecordedInvalid(<<>>)
  /\ RecordedInvalid(<<1>>)
  /\ Len(ruleGroup.rules) >= 1
  /\ isRuleGroup(ruleGroup.rules[1])

\* C19: in the string dialects a group the validation map records as
\* invalid is written as the fallback expression when it is the root or
\* the only child of its parent, and as the empty string otherwise (the
\* parent is written as if a dropped rule stood in the group's place);
\* nothing of the group's descendants is written.
C19_InvalidGroupFallbackOrEmpty ==
  (Called /\ options.format \in StringDialects) =>
    /\ RecordedInvalid(<<>>) => TextOf(fqResult) = <<TheFallbackExpression>>
    /\ (FirstChildIsInvalidGroup /\ Len(ruleGroup.rules) = 1) =>
         TextOf(fqResult) =
           AroundRoot(options.format, ruleGroup.not, <<TheFallbackExpression>>)
    /\ (FirstChildIsInvalidGroup /\ Len(ruleGroup.rules) > 1) =>
         TextOf(fqResult) =
           TextOf(formatQuery([ruleGroup EXCEPT !.rules[1] = DroppedRule],
                              options, script))

\* The three conditions under which a rule is written.
Kept(rule, path) ==
  /\ ~RecordedInvalid(path)
  /\ rule.field \in options.fieldValidators => rule.field \notin options.rejectedFields
  /\ ~PlaceholderRule(rule)

\* The rules of a tree that satisfy the three conditions and stand in
\* groups that are not recorded invalid, from left to right.
RECURSIVE KeptRules(_, _)
KeptRules(rg, path) ==
  IF RecordedInvalid(path) THEN <<>>
  ELSE Flatten([i \in DOMAIN rg.rules |->
         LET x == rg.rules[i]
             p == Append(path, i)
         IN IF isRuleGroup(x) THEN KeptRules(x, p)
            ELSE IF Kept(x, p) THEN <<x>> ELSE <<>>])

\* The fragment the format's default rule processor writes for a rule.
FragmentOf(rule, format) ==
  IF format \in {"parameterized", "parameterized_named"} THEN RuleHead(rule)
  ELSE IF format \in {"jsonlogic", "elasticsearch"} THEN defaultRuleProcessorObject(rule)
  ELSE IF format = "postgrest" THEN defaultRuleProcessorPostgREST(rule, FALSE)
  ELSE RuleCore(rule)

AllFragments(format) == {FragmentOf(r, format) : r \in ValidationRules}

RECURSIVE FragmentsOfJSON(_, _)
FragmentsOfJSON(j, format) ==
  IF j \in AllFragments(format) THEN <<j>>
  ELSE IF j.t = "arr" THEN Flatten([i \in DOMAIN j.a |-> FragmentsOfJSON(j.a[i], format)])
  ELSE IF j.t = "obj" THEN Flatten([i \in DOMAIN j.e |-> FragmentsOfJSON(j.e[i].v, format)])
  ELSE <<>>

\* The rule fragments of a result, from left to right.
FragmentsIn(out, format) ==
  LET isFragment(tok) == tok \in AllFragments(format)
  IN IF out.t = "text" THEN SelectSeq(out.toks, isFragment)
     ELSE IF out.t \in {"parameterized", "parameterized_named"}
       THEN SelectSeq(out.sql, isFragment)
     ELSE FragmentsOfJSON(out, format)

\* The named parameters of a sequence of rules: each rule takes the next
\* free name of its field.
NamedParamsOf(rules) ==
  {[name |-> rules[i].field \o "_"
               \o ToString(Cardinality({j \in 1..i : rules[j].field = rules[i].field})),
    value |-> rules[i].value] : i \in DOMAIN rules}

IsTernaryWithLiterals(logic, k) ==
  /\ IsOneKey(logic, k)
  /\ GetKey(logic, k).t = "arr"
  /\ Len(GetKey(logic, k).a) = 3
  /\ isRQBPostgRESTVar(GetKey(logic, k).a[2])
  /\ \E type \in {"str", "num", "bool"} :
       GetKey(logic, k).a[1].t = type /\ GetKey(logic, k).a[3].t = type

LowerBound(logic, k) == GetKey(logic, k).a[1]
UpperBound(logic, k) == GetKey(logic, k).a[3]
MiddleField(logic, k) == GetKey(GetKey(logic, k).a[2], "var").s

FieldPasses(f) == parseOptions.fields = {} \/ f \in parseOptions.fields

\* The two bounds as the value of a rule: an array, or a comma-joined text.
TwoBounds(lo, hi) ==
  IF parseOptions.listsAsArrays THEN JArr(<<lo, hi>>)
  ELSE JStr(ValueText(lo) \o "," \o ValueText(hi))

\* The result of a call, in the variant the caller asked for.
AsAsked(group) ==
  IF parseOptions.independentCombinators THEN convertToIC(group) ELSE group

ConvertedBack == converted # None /\ converted.standard # None

\* Every group of the tree that has fewer than two children has the
\* combinator 'and'.
RECURSIVE SmallGroupsAreAnd(_)
SmallGroupsAreAnd(rg) ==
  /\ Len(rg.rules) < 2 => rg.combinator = "and"
  /\ \A i \in DOMAIN rg.rules :
       isRuleGroup(rg.rules[i]) => SmallGroupsAreAnd(rg.rules[i])

IsCombinatorText(tok) == tok \in {"and", "or", ", and ", ", or "}

IsOperandText(tok) ==
  \E r \in {x \in ICOperands : ~isRuleGroup(x)} : tok \in {RuleCore(r), RuleHead(r)}

\* The operands and the combinators of a text, in order.  The nested
\* groups of the trees formatted hold one rule and no combinator, so each
\* contributes at most one operand.
Skeleton(toks) ==
  LET counts(tok) == IsCombinatorText(tok) \/ IsOperandText(tok)
  IN SelectSeq(toks, counts)

\* C23: when an independent-combinator tree is formatted as sql,
\* parameterized or natural_language and a child between combinator
\* tokens is dropped, the text still alternates operand, combinator,
\* operand: no combinator leads, trails, or follows another combinator.
C23_TokensStillAlternate ==
  (Called /\ ~isRuleGroupType(ruleGroup)
     /\ options.format \in {"sql", "parameterized", "parameterized_named", "natural_language"}) =>
    LET sk == Skeleton(TextOf(fqResult))
    IN \A i \in DOMAIN sk :
         IsCombinatorText(sk[i]) =>
           /\ i > 1
           /\ i < Len(sk)
           /\ ~IsCombinatorText(sk[i + 1])

\* A rule that the call writes: no placeholder, under a validator that
\* answers true.
Written(r) == ~isRuleGroup(r) /\ ~PlaceholderRule(r)

MongoRule(r) == <<"{", RuleCore(r), "}">>

MongoArray(combinator, e1, e2) ==
  <<"\"$" \o combinator \o "\"", ":[">> \o e1 \o <<",">> \o e2 \o <<"]">>

\* C24: in mongodb format a group with one rendered child is written as
\* that child's bare expression, whether the child is a rule or a nested
\* group; a group with two rendered children as "$<combinator>":[e1,e2]
\* in rule order; and the result stands in one pair of braces.
C24_SingleChildCollapses ==
  (Called /\ options.format = "mongodb" /\ options.validation = [bool |-> TRUE]) =>
    LET rs == ruleGroup.rules
    IN /\ (Len(rs) = 1 /\ Written(rs[1])) => fqResult = Text(MongoRule(rs[1]))
       /\ (/\ Len(rs) = 1 /\ isRuleGroup(rs[1])
           /\ Len(rs[1].rules) = 1 /\ Written(rs[1].rules[1])) =>
            fqResult = Text(MongoRule(rs[1].rules[1]))
       /\ (Len(rs) = 2 /\ Written(rs[1]) /\ Written(rs[2])) =>
            fqResult = Text(<<"{">>
                            \o MongoArray(ruleGroup.combinator, MongoRule(rs[1]), MongoRule(rs[2]))
                            \o <<"}">>)

\* The position of the between rule among the root's children.
BetweenIndex ==
  CHOOSE i \in DOMAIN ruleGroup.rules :
    ruleGroup.rules[i].operator \in {"between", "notBetween"}

BetweenRule == ruleGroup.rules[BetweenIndex]

\* The rule supplies two valid values: its value is a list of at least
\* two items of which the first two are not empty.
HasTwoValidValues(r) ==
  /\ r.value.t = "arr"
  /\ Len(r.value.a) >= 2
  /\ r.value.a[1] # JStr("")
  /\ r.value.a[2] # JStr("")

IsNumeric(v) == v.t = "num" \/ (v.t = "str" /\ IsNumericString(v.s))

AsNumber(v) == IF v.t = "num" THEN v.n ELSE NumericValue(v.s)

\* The array the root group is written as, empty when the result is false.
EmittedArray ==
  IF fqResult = JBool(FALSE) THEN <<>> ELSE fqResult.e[1].v.a

SiblingFragment == JObj1("==", JArr(<<JVar("b"), JStr("x")>>))

\* What is written for the between rule, without the wrapper of notBetween.
ChainedForm ==
  LET fragment == EmittedArray[BetweenIndex]
  IN IF BetweenRule.operator = "notBetween" THEN fragment.e[1].v ELSE fragment

\* C25: for between and notBetween with literal values the default
\* PostgREST rule processor writes { "<=": [lo, { var: field }, hi] }
\* (inside its negation wrapper for notBetween); when the first two values
\* are numeric, lo and hi are those two numbers with lo <= hi; with fewer
\* than two valid values the rule is left out of its group's array.
C25_BetweenBoundsOrdered ==
  (Called /\ options.format = "postgrest"
     /\ \E i \in DOMAIN ruleGroup.rules :
          ruleGroup.rules[i].operator \in {"between", "notBetween"}) =>
    LET r == BetweenRule
        siblings == Len(ruleGroup.rules) - 1
    IN IF ~HasTwoValidValues(r)
       THEN EmittedArray = [i \in 1..siblings |-> SiblingFragment]
       ELSE /\ Len(EmittedArray) = Len(ruleGroup.rules)
            /\ IsOneKey(ChainedForm, "<=")
            /\ LET operand == ChainedForm.e[1].v.a
                   first == r.value.a[1]
                   second == r.value.a[2]
               IN /\ Len(operand) = 3
                  /\ operand[2] = JVar(r.field)
                  /\ IF IsNumeric(first) /\ IsNumeric(second)
                     THEN /\ operand[1].t = "num" /\ operand[3].t = "num"
                          /\ operand[1].n <= operand[3].n
                          /\ {operand[1].n, operand[3].n} = {AsNumber(first), AsNumber(second)}
                     ELSE operand[1] = first /\ operand[3] = second

C25_Witness ==
  /\ Called
  /\ ruleGroup.rules = <<Rule("a", "between", JArr(<<JNum(3), JStr("2")>>), "value"),
                         BetweenSibling>>
  /\ fqResult = JObj1("and", JArr(<<JObj1("<=", JArr(<<JNum(2), JVar("a"), JNum(3)>>)),
                                    SiblingFragment>>))

\* A group with its not flag complemented.
Complemented(g) == [g EXCEPT !.not = ~g.not]

\* C26: parsing {"!": L}, L reconstructing to a group G, yields G with
\* its not flag complemented; so {"!": {"!": {"and": [...]}}} yields the
\* group of {"and": [...]} without a not flag.
C26_NegationComplements ==
  (ParseDone /\ IsOneKey(GivenLogic, "!")
     /\ isRuleGroupType(ReconstructsTo(GivenLogic.e[1].v))) =>
    parseResult = AsAsked(Complemented(ReconstructsTo(GivenLogic.e[1].v)))

\* What the call's format returns for a valid root group without rules.
ResultForEmptyRoot ==
  formatQuery(Group("and", FALSE, <<>>),
              [options EXCEPT !.validation = [bool |-> TRUE]], NoScript)

\* C27: in postgrest format a tree whose validator answers false is
\* formatted as a valid empty root group is, as the value false; and every
\* postgrest result is false or an object, never a text.
C27_PostgRESTFalseMarker ==
  (Called /\ options.format = "postgrest") =>
    /\ ValidatorReturnedFalse =>
         fqResult = ResultForEmptyRoot /\ fqResult = JBool(FALSE)
    /\ fqResult = JBool(FALSE) \/ fqResult.t = "obj"

\* The comparison that holds of (y, x) exactly when op holds of (x, y).
Mirrored(op) ==
  CASE op = "<" -> ">"
    [] op = "<=" -> ">="
    [] op = ">" -> "<"
    [] op = ">=" -> "<="

\* A top-level binary shape { k: [x, y] }.
IsBinaryShape(logic, k) ==
  /\ IsOneKey(logic, k)
  /\ GetKey(logic, k).t = "arr"
  /\ Len(GetKey(logic, k).a) = 2

IsLiteral(v) == v.t \in {"num", "str", "bool"}

\* C28: a rule parsePostgREST reconstructs from a binary shape denotes the
\* predicate of the input whatever the order of the operands: a
\* comparison { op: [literal, { var: f }] } yields f with the mirrored
\* operator, { op: [{ var: f }, literal] } yields f with op itself, and
\* { in: [{ var: x }, { var: f }] } yields f contains x with valueSource
\* 'field'.
C28_OperandOrder ==
  ParseDone =>
    /\ \A k \in {"<", "<=", ">", ">="} :
         IsBinaryShape(GivenLogic, k) =>
           LET x == GetKey(GivenLogic, k).a[1]
               y == GetKey(GivenLogic, k).a[2]
           IN /\ (IsLiteral(x) /\ isRQBPostgRESTVar(y) /\ FieldPasses(GetKey(y, "var").s)) =>
                   parseResult = AsAsked(Group("and", FALSE,
                                   <<Rule(GetKey(y, "var").s, Mirrored(k), x, "none")>>))
              /\ (isRQBPostgRESTVar(x) /\ IsLiteral(y) /\ FieldPasses(GetKey(x, "var").s)) =>
                   parseResult = AsAsked(Group("and", FALSE,
                                   <<Rule(GetKey(x, "var").s, k, y, "none")>>))
    /\ IsBinaryShape(GivenLogic, "in") =>
         LET x == GetKey(GivenLogic, "in").a[1]
             y == GetKey(GivenLogic, "in").a[2]
         IN (/\ isRQBPostgRESTVar(x) /\ isRQBPostgRESTVar(y)
             /\ FieldPasses(GetKey(x, "var").s) /\ FieldPasses(GetKey(y, "var").s)) =>
              parseResult = AsAsked(Group("and", FALSE,
                              <<Rule(GetKey(y, "var").s, "contains", GetKey(x, "var"), "field")>>))

\* The text of a bound: of a literal, or the name of a field reference.
BoundText(b) == IF isRQBPostgRESTVar(b) THEN GetKey(b, "var").s ELSE ValueText(b)

\* The comma-joined texts of two bounds (no bound's text holds a comma).
TwoJoined ==
  {JStr(BoundText(x) \o "," \o BoundText(y)) : x \in TernaryBounds, y \in TernaryBounds}

CarriesTwoBounds(r) ==
  \/ r.value.t = "arr" /\ Len(r.value.a) = 2
  \/ r.value.t = "str" /\ r.value \in TwoJoined

\* The top-level inclusive shape { "<=": [lo, { var: f }, hi] }.
IsInclusiveShape(logic) ==
  /\ IsOneKey(logic, "<=")
  /\ GetKey(logic, "<=").t = "arr"
  /\ Len(GetKey(logic, "<=").a) = 3
  /\ isRQBPostgRESTVar(GetKey(logic, "<=").a[2])

\* A field reference that fails the field-validity filter as a bound of
\* field f: it is not listed, or it is f itself.
BoundFails(b, f) ==
  /\ isRQBPostgRESTVar(b)
  /\ parseOptions.fields # {}
  /\ GetKey(b, "var").s \notin parseOptions.fields \/ GetKey(b, "var").s = f

\* C29: every between rule parsePostgREST returns carries exactly two
\* bounds, as a two-item array or as two comma-joined items; an inclusive
\* shape whose bounds are field references of which one fails the
\* field-validity filter, or literals of different types, gives no rule.
C29_BetweenHasTwoBounds ==
  (ParseDone /\ parseResult # TypeError) =>
    /\ \A r \in RulesOf(parseResult) : r.operator = "between" => CarriesTwoBounds(r)
    /\ IsInclusiveShape(GivenLogic) =>
         LET lo == LowerBound(GivenLogic, "<=")
             hi == UpperBound(GivenLogic, "<=")
             f == MiddleField(GivenLogic, "<=")
         IN (\/ /\ isRQBPostgRESTVar(lo) /\ isRQBPostgRESTVar(hi)
                /\ BoundFails(lo, f) \/ BoundFails(hi, f)
             \/ /\ IsLiteral(lo) /\ IsLiteral(hi) /\ lo.t # hi.t) =>
              parseResult = AsAsked(emptyRuleGroup)

\* C30: results of separate calls are independent values: whatever a
\* caller has done to a group an earlier call returned, a call on input
\* that is not JSON, not a plain object or not recognised returns a group
\* with combinator 'and' and an empty rules list.
IsUnrecognisedInput(input, opt) ==
  LET logicRoot == IF input.kind = "text" THEN JSONparse(input.toks) ELSE input.json
  IN \/ logicRoot = SyntaxError
     \/ processLogic(logicRoot, TRUE, opt) = JBool(FALSE)

C30_EmptyGroupStaysEmpty ==
  [][(ParseAgain /\ IsUnrecognisedInput(rqbPostgREST', parseOptions'))
       => /\ parseResult'.rules = <<>>
          /\ ~parseOptions'.independentCombinators
               => parseResult'.combinator = "and"]_vars

====
